---- MODULE Spec2Model ----
(***************************************************************************)
(* Model of the CL-signature Prover of indy-crypto                         *)
(* (libindy-crypto/src/cl/prover.rs): the ProofBuilder state machine       *)
(* (add_sub_proof_request / finalize) and the signature post-processing    *)
(* (process_credential_signature).                                         *)
(*                                                                         *)
(* Arithmetic is the arithmetic of the code, carried out in small groups:  *)
(* the RSA group is Z_35^* (35 = 5 * 7, both safe primes), the pairing     *)
(* groups G1, G2, GT are the additive group Z_7 with pair(P, Q) = P * Q.   *)
(* Byte strings of bignums and points are represented by the numbers       *)
(* themselves.                                                             *)
(***************************************************************************)
EXTENDS Integers, Sequences, FiniteSets, TLC

(***************************************************************************)
(* Bounds of the model                                                     *)
(***************************************************************************)
MaxCalls == 2       \* add_sub_proof_request calls that append to the builder
MaxKeys == 2        \* key_ids 1..MaxKeys, ordered as the BTreeMap orders them
MaxSeed == 1        \* RNG seeds 0..MaxSeed
MaxNonce == 1       \* nonces 0..MaxNonce
MaxProcess == 2     \* process_credential_signature calls on one signature
MaxBlind == 2       \* blind_credential_secrets calls on the same arguments

(***************************************************************************)
(* Option<T>, Result<T, IndyCryptoError>                                   *)
(***************************************************************************)
None == <<>>
Some(x) == <<x>>
IsSome(o) == o # <<>>

\* `let x = v;`: v is computed once and F is the code that follows, with x for v
Let(v, F(_)) == F(v)

\* `next` is the position of the random stream after the call
Ok(v, next) == [ok |-> TRUE, val |-> v, msg |-> "", next |-> next]
Err(m, next) == [ok |-> FALSE, val |-> <<>>, msg |-> m, next |-> next]

(***************************************************************************)
(* BigNumber and GroupOrderElement arithmetic                              *)
(***************************************************************************)
RECURSIVE ModPow(_, _, _)
ModPow(b, e, n) ==
    IF e = 0 THEN 1 % n
    ELSE IF e % 2 = 0
         THEN LET h == ModPow(b, e \div 2, n) IN (h * h) % n
         ELSE (b * ModPow(b, e - 1, n)) % n

inverse(a, n) == CHOOSE x \in 0..(n - 1) : (a * x) % n = 1 % n

\* BigNumber::mod_exp: a negative exponent inverts the base
mod_exp(b, e, n) ==
    IF e < 0 THEN ModPow(inverse(b % n, n), 0 - e, n) ELSE ModPow(b % n, e, n)

mod_mul(a, b, n) == (a * b) % n

mod_div(a, b, n) == (a * inverse(b % n, n)) % n

is_prime(e) == e > 1 /\ \A d \in 2..(e - 1) : d * d > e \/ e % d # 0

get_pedersen_commitment(gen_1, m, gen_2, r, modulus) ==
    mod_mul(mod_exp(gen_1, m, modulus), mod_exp(gen_2, r, modulus), modulus)

RECURSIVE get_exponentiated_generators(_, _)
get_exponentiated_generators(pairs, modulus) ==
    IF pairs = <<>> THEN 1 % modulus
    ELSE mod_mul(mod_exp(Head(pairs)[1], Head(pairs)[2], modulus),
                 get_exponentiated_generators(Tail(pairs), modulus), modulus)

\* Z_q, q = 7
add_mod(a, b) == (a + b) % 7
mul_mod(a, b) == (a * b) % 7
mod_neg(a) == (7 - (a % 7)) % 7

\* Fiat-Shamir hash of a sequence of byte strings, sensitive to their order:
\* h -> (2 * h + x + 1) % 5 folded over values[lo..hi] from 0, computed by halves
RECURSIVE HashFold(_, _, _)
HashFold(values, lo, hi) ==
    IF lo > hi THEN 0
    ELSE IF lo = hi THEN (values[lo] + 1) % 5
    ELSE LET mid == (lo + hi) \div 2
         IN (ModPow(2, hi - mid, 5) * HashFold(values, lo, mid)
             + HashFold(values, mid + 1, hi)) % 5

get_hash_as_int(values) == HashFold(values, 1, Len(values))

\* the i-th number of the random stream of a seed
bn_rand(seed, i) == (seed * (i + 1) + i) % 3

GroupOrderElement_new(seed, i) == (bn_rand(seed, i) + 1) % 7

(***************************************************************************)
(* Inputs: keys, credentials, requests                                     *)
(***************************************************************************)
AttrNames == {"age", "email", "name"}

\* rank of an attribute name in lexicographic order
AttrRank == ("age" :> 0) @@ ("email" :> 1) @@ ("name" :> 2)

KeyIds == 1..MaxKeys
Seeds == 0..MaxSeed
Nonces == 0..MaxNonce

LARGE_E_START == 2
\* e ranges over [2^LARGE_E_START, 2^LARGE_E_START + 2^LARGE_E]
LARGE_E == 1

mocks_credential_primary_public_key ==
    [n |-> 35, s |-> 4, z |-> 16, rctxt |-> 29,
     r |-> ("age" :> 11) @@ ("email" :> 4) @@ ("name" :> 9)]

mocks_credential_revocation_public_key ==
    [g |-> 1, g_dash |-> 1, h |-> 2, h0 |-> 3, h1 |-> 4, h2 |-> 5,
     htilde |-> 6, h_cap |-> 2, u |-> 3, pk |-> 2, y |-> 6]

mocks_credential_values(age) ==
    [attrs_values |->
        ("age" :> [value |-> age, blinding_factor |-> None]) @@
        ("name" :> [value |-> 7, blinding_factor |-> Some(2)])]

\* set of (generator, exponent) pairs as a sequence, keys in any fixed order
RECURSIVE SetToSeq(_)
SetToSeq(S) ==
    IF S = {} THEN <<>>
    ELSE LET x == CHOOSE y \in S : TRUE IN <<x>> \o SetToSeq(S \ {x})

\* Issuer::sign_credential: A with A^e = Z / (S^v Rctxt^m2 Prod R_i^a_i)
mocks_primary_credential(values, e) ==
    LET pk == mocks_credential_primary_public_key
        \* an e that has no inverse modulo the group order signs Q = 1 only:
        \* v is then the exponent that makes Q = 1, and A = 1
        invertible == \E x \in 1..6 : (x * e) % 6 = 1
        v == IF invertible THEN 3 ELSE 1
        m_2 == 2
        attrs == SetToSeq(DOMAIN values.attrs_values)
        rx == get_exponentiated_generators(
                <<<<pk.s, v>>, <<pk.rctxt, m_2>>>> \o
                [i \in 1..Len(attrs) |->
                    <<pk.r[attrs[i]], values.attrs_values[attrs[i]].value>>],
                pk.n)
        q == mod_div(pk.z, rx, pk.n)
        \* the group of squares of Z_35^* has order 6
        d == IF invertible THEN CHOOSE x \in 1..6 : (x * e) % 6 = 1 ELSE 1
    IN [m_2 |-> m_2, a |-> mod_exp(q, d, pk.n), e |-> e, v |-> v]

mocks_revocation_credential ==
    [sigma |-> 4, c |-> 1, vr_prime_prime |-> 3,
     witness_signature |-> [sigma_i |-> 6, u_i |-> 5, g_i |-> 4],
     g_i |-> 4, i |-> 1, m2 |-> 2]

mocks_revocation_registry == [accum |-> 3]

mocks_witness == [omega |-> 4]

mocks_revocation_key_public == [z |-> 1]

Predicate(attr_name, value) ==
    [attr_name |-> attr_name, p_type |-> "GE", value |-> value]

(***************************************************************************)
(* ProofBuilder::add_sub_proof_request and the sub-proof initialisation    *)
(***************************************************************************)
I32_MAX == 2147483647
I32_MIN == (0 - I32_MAX) - 1

\* the operands of the subtraction exchanged
i32_sub_swapped(a, b) ==
    IF a < 0 /\ b > I32_MAX + a THEN (b + I32_MIN) - (a - I32_MIN)
    ELSE IF a > 0 /\ b < I32_MIN + a THEN (b - I32_MIN) - (a + I32_MIN)
    ELSE b - a

\* `attr_value - value` on i32: the difference modulo 2^32
i32_sub(a, b) ==
    IF b < 0 /\ a > I32_MAX + b THEN (a + I32_MIN) - (b - I32_MIN)
    ELSE IF b > 0 /\ a < I32_MIN + b THEN (a - I32_MIN) - (b + I32_MIN)
    ELSE a - b

\* the predicate attributes tested before the revealed attributes
_check_add_sub_proof_request_params_consistency_predicates_first(cred_values, sub_proof_request, cred_schema) ==
    LET cred_attrs == DOMAIN cred_values.attrs_values
        predicates_attrs ==
            { sub_proof_request.predicates[i].attr_name :
                i \in DOMAIN sub_proof_request.predicates }
    IN IF cred_schema.attrs # cred_attrs
       THEN Err("Credential doesn't correspond to credential schema", 0)
       ELSE IF predicates_attrs \ cred_attrs # {}
       THEN Err("Credential doesn't contain attribute requested in predicate", 0)
       ELSE IF sub_proof_request.revealed_attrs \ cred_attrs # {}
       THEN Err("Credential doesn't contain requested attribute", 0)
       ELSE Ok(<<>>, 0)

_check_add_sub_proof_request_params_consistency(cred_values, sub_proof_request, cred_schema) ==
    LET cred_attrs == DOMAIN cred_values.attrs_values
        predicates_attrs ==
            { sub_proof_request.predicates[i].attr_name :
                i \in DOMAIN sub_proof_request.predicates }
    IN IF cred_schema.attrs # cred_attrs
       THEN Err("Credential doesn't correspond to credential schema", 0)
       ELSE IF sub_proof_request.revealed_attrs \ cred_attrs # {}
       THEN Err("Credential doesn't contain requested attribute", 0)
       ELSE IF predicates_attrs \ cred_attrs # {}
       THEN Err("Credential doesn't contain attribute requested in predicate", 0)
       ELSE Ok(<<>>, 0)

\* the pairing e : G1 x G2 -> GT; GT is written additively
pair(p, q) == mul_mod(p, q)

_gen_c_list_params(r_cred, seed, base) ==
    LET rho == GroupOrderElement_new(seed, base)
        r == GroupOrderElement_new(seed, base + 1)
        r_prime == GroupOrderElement_new(seed, base + 2)
        r_prime_prime == GroupOrderElement_new(seed, base + 3)
        r_prime_prime_prime == GroupOrderElement_new(seed, base + 4)
        o == GroupOrderElement_new(seed, base + 5)
        o_prime == GroupOrderElement_new(seed, base + 6)
    IN [rho |-> rho, r |-> r, r_prime |-> r_prime,
        r_prime_prime |-> r_prime_prime,
        r_prime_prime_prime |-> r_prime_prime_prime,
        o |-> o, o_prime |-> o_prime,
        m |-> mul_mod(rho, r_cred.c),
        m_prime |-> mul_mod(r, r_prime_prime),
        t |-> mul_mod(o, r_cred.c),
        t_prime |-> mul_mod(o_prime, r_prime_prime),
        m2 |-> r_cred.m2 % 7,
        s |-> r_cred.vr_prime_prime,
        c |-> r_cred.c]

_create_c_list_values(r_cred, params, r_pub_key, witness) ==
    [e |-> add_mod(mul_mod(r_pub_key.h, params.rho), mul_mod(r_pub_key.htilde, params.o)),
     d |-> add_mod(mul_mod(r_pub_key.g, params.r), mul_mod(r_pub_key.htilde, params.o_prime)),
     a |-> add_mod(r_cred.sigma, mul_mod(r_pub_key.htilde, params.rho)),
     g |-> add_mod(r_cred.g_i, mul_mod(r_pub_key.htilde, params.r)),
     w |-> add_mod(witness.omega, mul_mod(r_pub_key.h_cap, params.r_prime)),
     s |-> add_mod(r_cred.witness_signature.sigma_i,
                   mul_mod(r_pub_key.h_cap, params.r_prime_prime)),
     u |-> add_mod(r_cred.witness_signature.u_i,
                   mul_mod(r_pub_key.h_cap, params.r_prime_prime_prime))]

_gen_tau_list_params(seed, base) ==
    [rho |-> GroupOrderElement_new(seed, base),
     r |-> GroupOrderElement_new(seed, base + 1),
     r_prime |-> GroupOrderElement_new(seed, base + 2),
     r_prime_prime |-> GroupOrderElement_new(seed, base + 3),
     r_prime_prime_prime |-> GroupOrderElement_new(seed, base + 4),
     o |-> GroupOrderElement_new(seed, base + 5),
     o_prime |-> GroupOrderElement_new(seed, base + 6),
     m |-> GroupOrderElement_new(seed, base + 7),
     m_prime |-> GroupOrderElement_new(seed, base + 8),
     t |-> GroupOrderElement_new(seed, base + 9),
     t_prime |-> GroupOrderElement_new(seed, base + 10),
     m2 |-> GroupOrderElement_new(seed, base + 11),
     s |-> GroupOrderElement_new(seed, base + 12),
     c |-> GroupOrderElement_new(seed, base + 13)]

\* helpers::create_tau_list_values: the eight blinded commitments T1..T8
create_tau_list_values(r_pub_key, rev_reg, params, proof_c) ==
    LET pk == r_pub_key
        sum(xs) == (xs[1] + xs[2] + xs[3] + xs[4]) % 7
    IN [t1 |-> add_mod(mul_mod(pk.h, params.rho), mul_mod(pk.htilde, params.o)),
        t2 |-> add_mod(add_mod(mul_mod(proof_c.e, params.c),
                               mul_mod(pk.h, mod_neg(params.m))),
                       mul_mod(pk.htilde, mod_neg(params.t))),
        t3 |-> add_mod(add_mod(mul_mod(pair(proof_c.a, pk.h_cap), params.c),
                               mul_mod(pair(pk.htilde, pk.h_cap), params.r)),
                       mod_neg(sum(<<mul_mod(pair(pk.htilde, pk.y), params.rho),
                                     mul_mod(pair(pk.htilde, pk.h_cap), params.m),
                                     mul_mod(pair(pk.h1, pk.h_cap), params.m2),
                                     mul_mod(pair(pk.h2, pk.h_cap), params.s)>>))),
        t4 |-> add_mod(mul_mod(pair(pk.htilde, rev_reg.accum), params.r),
                       mul_mod(pair(mod_neg(pk.g), pk.h_cap), params.r_prime)),
        t5 |-> add_mod(mul_mod(pk.g, params.r), mul_mod(pk.htilde, params.o_prime)),
        t6 |-> add_mod(add_mod(mul_mod(proof_c.d, params.r_prime_prime),
                               mul_mod(pk.g, mod_neg(params.m_prime))),
                       mul_mod(pk.htilde, mod_neg(params.t_prime))),
        t7 |-> add_mod(add_mod(mul_mod(pair(add_mod(pk.pk, proof_c.g), pk.h_cap),
                                       params.r_prime_prime),
                               mul_mod(pair(pk.htilde, pk.h_cap), mod_neg(params.m_prime))),
                       mul_mod(pair(pk.htilde, proof_c.s), params.r)),
        t8 |-> add_mod(mul_mod(pair(pk.htilde, pk.u), params.r),
                       mul_mod(pair(mod_neg(pk.g), pk.h_cap), params.r_prime_prime_prime))]

_init_non_revocation_proof(r_cred, rev_reg, cred_rev_pub_key, witness, seed, base) ==
    LET c_list_params == _gen_c_list_params(r_cred, seed, base)
        c_list_values == _create_c_list_values(r_cred, c_list_params, cred_rev_pub_key, witness)
        tau_list_params == _gen_tau_list_params(seed, base + 7)
        tau_list_values == create_tau_list_values(cred_rev_pub_key, rev_reg, tau_list_params,
                                                  c_list_values)
    IN Ok([c_list_params |-> c_list_params, tau_list_params |-> tau_list_params,
           c_list |-> c_list_values, tau_list |-> tau_list_values], base + 21)

\* NonRevocProofCList::as_list and NonRevocProofTauList::as_slice, as bytes
NonRevocInitProof_as_c_list(self) ==
    LET c == self.c_list IN <<c.e, c.d, c.a, c.g, c.w, c.s, c.u>>

NonRevocInitProof_as_tau_list(self) ==
    LET t == self.tau_list IN <<t.t1, t.t2, t.t3, t.t4, t.t5, t.t6, t.t7, t.t8>>

group_element_to_bignum(el) == el

bignum_to_group_element(num) == num % 7

\* helpers::get_mtilde: one fresh m_tilde for every unrevealed attribute
get_mtilde(unrevealed_attrs, seed, base) ==
    [a \in unrevealed_attrs |->
        bn_rand(seed, base + Cardinality({b \in unrevealed_attrs : AttrRank[b] < AttrRank[a]}))]

\* helpers::calc_teq
calc_teq(p_pub_key, a_prime, e, v, m_tilde, m2tilde, unrevealed_attrs) ==
    LET attrs == SetToSeq(unrevealed_attrs)
    IN get_exponentiated_generators(
          <<<<a_prime, e>>, <<p_pub_key.s, v>>, <<p_pub_key.rctxt, m2tilde>>>> \o
          [i \in 1..Len(attrs) |-> <<p_pub_key.r[attrs[i]], m_tilde[attrs[i]]>>],
          p_pub_key.n)

\* an m_tilde for every attribute of the schema, revealed ones included
_init_eq_proof_mtilde_over_schema(credr_pub_key, c1, cred_schema, sub_proof_request, m2_t, seed, base) ==
    LET sampled == bn_rand(seed, base)
        m2_tilde == IF IsSome(m2_t) THEN m2_t[1] ELSE sampled
        r == bn_rand(seed, base + 1)
        e_tilde == bn_rand(seed, base + 2)
        v_tilde == bn_rand(seed, base + 3)
        unrevealed_attrs == cred_schema.attrs \ sub_proof_request.revealed_attrs
        m_tilde == get_mtilde(cred_schema.attrs, seed, base + 4)
        a_prime == mod_mul(mod_exp(credr_pub_key.s, r, credr_pub_key.n), c1.a,
                           credr_pub_key.n)
        v_prime == c1.v - (c1.e * r)
        e_prime == c1.e - (2 ^ LARGE_E_START)
        t == calc_teq(credr_pub_key, a_prime, e_tilde, v_tilde, m_tilde, m2_tilde,
                      unrevealed_attrs)
    IN Ok([a_prime |-> a_prime, t |-> t, e_tilde |-> e_tilde, e_prime |-> e_prime,
           v_tilde |-> v_tilde, v_prime |-> v_prime, m_tilde |-> m_tilde,
           m2_tilde |-> m2_tilde, m2 |-> c1.m_2],
          base + 4 + Cardinality(unrevealed_attrs))

\* m2_tilde is sampled whether or not m2_t is given
_init_eq_proof_sampling_m2_tilde(credr_pub_key, c1, cred_schema, sub_proof_request, m2_t, seed, base) ==
    LET sampled == bn_rand(seed, base)
        m2_tilde == sampled
        r == bn_rand(seed, base + 1)
        e_tilde == bn_rand(seed, base + 2)
        v_tilde == bn_rand(seed, base + 3)
        unrevealed_attrs == cred_schema.attrs \ sub_proof_request.revealed_attrs
        m_tilde == get_mtilde(unrevealed_attrs, seed, base + 4)
        a_prime == mod_mul(mod_exp(credr_pub_key.s, r, credr_pub_key.n), c1.a,
                           credr_pub_key.n)
        v_prime == c1.v - (c1.e * r)
        e_prime == c1.e - (2 ^ LARGE_E_START)
        t == calc_teq(credr_pub_key, a_prime, e_tilde, v_tilde, m_tilde, m2_tilde,
                      unrevealed_attrs)
    IN Ok([a_prime |-> a_prime, t |-> t, e_tilde |-> e_tilde, e_prime |-> e_prime,
           v_tilde |-> v_tilde, v_prime |-> v_prime, m_tilde |-> m_tilde,
           m2_tilde |-> m2_tilde, m2 |-> c1.m_2],
          base + 4 + Cardinality(unrevealed_attrs))

_init_eq_proof(credr_pub_key, c1, cred_schema, sub_proof_request, m2_t, seed, base) ==
    LET sampled == bn_rand(seed, base)
        m2_tilde == IF IsSome(m2_t) THEN m2_t[1] ELSE sampled
        r == bn_rand(seed, base + 1)
        e_tilde == bn_rand(seed, base + 2)
        v_tilde == bn_rand(seed, base + 3)
        unrevealed_attrs == cred_schema.attrs \ sub_proof_request.revealed_attrs
        m_tilde == get_mtilde(unrevealed_attrs, seed, base + 4)
        a_prime == mod_mul(mod_exp(credr_pub_key.s, r, credr_pub_key.n), c1.a,
                           credr_pub_key.n)
        v_prime == c1.v - (c1.e * r)
        e_prime == c1.e - (2 ^ LARGE_E_START)
        t == calc_teq(credr_pub_key, a_prime, e_tilde, v_tilde, m_tilde, m2_tilde,
                      unrevealed_attrs)
    IN Ok([a_prime |-> a_prime, t |-> t, e_tilde |-> e_tilde, e_prime |-> e_prime,
           v_tilde |-> v_tilde, v_prime |-> v_prime, m_tilde |-> m_tilde,
           m2_tilde |-> m2_tilde, m2 |-> c1.m_2],
          base + 4 + Cardinality(unrevealed_attrs))

ITERATION == 4

IterKeys == { ToString(i) : i \in 0..(ITERATION - 1) }

\* roots of k squares, none above x^2, in descending order and summing to n;
\* <<-1>> when there are none
RECURSIVE squares(_, _, _)
squares(n, k, x) ==
    IF k = 0 THEN (IF n = 0 THEN <<>> ELSE <<-1>>)
    ELSE IF x < 0 \/ k * x * x < n THEN <<-1>>
    ELSE IF x * x > n THEN squares(n, k, x - 1)
    ELSE LET rest == squares(n - x * x, k - 1, x)
         IN IF rest # <<-1>> THEN <<x>> \o rest ELSE squares(n, k, x - 1)

\* helpers::four_squares: u0 >= u1 >= u2 >= u3 with u0^2+u1^2+u2^2+u3^2 = delta
four_squares(delta) ==
    LET u == squares(delta, ITERATION, IF delta > 46340 THEN 46340 ELSE delta)
    IN [k \in IterKeys |-> u[1 + (CHOOSE i \in 0..(ITERATION - 1) : ToString(i) = k)]]

\* helpers::calc_tge
calc_tge(p_pub_key, u, r, mj, alpha, t) ==
    LET pk == p_pub_key
        q == get_exponentiated_generators(
                [i \in 1..ITERATION |-> <<t[ToString(i - 1)], u[ToString(i - 1)]>>] \o
                <<<<pk.s, alpha>>>>, pk.n)
    IN [i \in 1..ITERATION |->
            get_pedersen_commitment(pk.z, u[ToString(i - 1)], pk.s, r[ToString(i - 1)], pk.n)]
       \o <<get_pedersen_commitment(pk.z, mj, pk.s, r["DELTA"], pk.n), q>>

\* an m_tilde of its own for an attribute the equality proof has none for
_init_ge_proof_resampling(p_pub_key, m_tilde, cred_values, predicate, seed, base) ==
    LET k == predicate.attr_name
        value == predicate.value
    IN IF k \notin DOMAIN cred_values.attrs_values
       THEN Err("Value by key not found in cred_values", base)
       ELSE
       LET attr_value == cred_values.attrs_values[k].value
           delta == i32_sub(attr_value, value)
       IN IF delta < 0 THEN Err("Predicate is not satisfied", base)
          ELSE
          LET u == four_squares(delta)
              r == [key \in IterKeys \cup {"DELTA"} |->
                      IF key = "DELTA" THEN bn_rand(seed, base + ITERATION)
                      ELSE bn_rand(seed, base + (CHOOSE i \in 0..(ITERATION - 1) : ToString(i) = key))]
              t == [key \in IterKeys \cup {"DELTA"} |->
                      IF key = "DELTA"
                      THEN get_pedersen_commitment(p_pub_key.z, delta, p_pub_key.s, r[key], p_pub_key.n)
                      ELSE get_pedersen_commitment(p_pub_key.z, u[key], p_pub_key.s, r[key], p_pub_key.n)]
              c_list_values == [i \in 1..(ITERATION + 1) |->
                            IF i = ITERATION + 1 THEN t["DELTA"] ELSE t[ToString(i - 1)]]
              u_tilde == [key \in IterKeys |->
                            bn_rand(seed, base + ITERATION + 1
                                          + 2 * (CHOOSE i \in 0..(ITERATION - 1) : ToString(i) = key))]
              r_tilde == [key \in IterKeys \cup {"DELTA"} |->
                            IF key = "DELTA" THEN bn_rand(seed, base + 3 * ITERATION + 1)
                            ELSE bn_rand(seed, base + ITERATION + 2
                                          + 2 * (CHOOSE i \in 0..(ITERATION - 1) : ToString(i) = key))]
              alpha_tilde == bn_rand(seed, base + 3 * ITERATION + 2)
              mj == IF k \in DOMAIN m_tilde THEN m_tilde[k]
                    ELSE bn_rand(seed, base + 3 * ITERATION + 3)
          IN IF FALSE
             THEN Err("Value by key not found in eq_proof.mtilde", base + 3 * ITERATION + 3)
             ELSE Ok([c_list |-> c_list_values,
                      tau_list |-> calc_tge(p_pub_key, u_tilde, r_tilde, mj, alpha_tilde, t),
                      u |-> u, u_tilde |-> u_tilde, r |-> r, r_tilde |-> r_tilde,
                      alpha_tilde |-> alpha_tilde, predicate |-> predicate, t |-> t],
                     base + 3 * ITERATION + 3)

\* the range proof's tau values are made of an m_tilde sampled for it
_init_ge_proof_sampling_mj(p_pub_key, m_tilde, cred_values, predicate, seed, base) ==
    LET k == predicate.attr_name
        value == predicate.value
    IN IF k \notin DOMAIN cred_values.attrs_values
       THEN Err("Value by key not found in cred_values", base)
       ELSE
       LET attr_value == cred_values.attrs_values[k].value
           delta == i32_sub(attr_value, value)
       IN IF delta < 0 THEN Err("Predicate is not satisfied", base)
          ELSE
          LET u == four_squares(delta)
              r == [key \in IterKeys \cup {"DELTA"} |->
                      IF key = "DELTA" THEN bn_rand(seed, base + ITERATION)
                      ELSE bn_rand(seed, base + (CHOOSE i \in 0..(ITERATION - 1) : ToString(i) = key))]
              t == [key \in IterKeys \cup {"DELTA"} |->
                      IF key = "DELTA"
                      THEN get_pedersen_commitment(p_pub_key.z, delta, p_pub_key.s, r[key], p_pub_key.n)
                      ELSE get_pedersen_commitment(p_pub_key.z, u[key], p_pub_key.s, r[key], p_pub_key.n)]
              c_list_values == [i \in 1..(ITERATION + 1) |->
                            IF i = ITERATION + 1 THEN t["DELTA"] ELSE t[ToString(i - 1)]]
              u_tilde == [key \in IterKeys |->
                            bn_rand(seed, base + ITERATION + 1
                                          + 2 * (CHOOSE i \in 0..(ITERATION - 1) : ToString(i) = key))]
              r_tilde == [key \in IterKeys \cup {"DELTA"} |->
                            IF key = "DELTA" THEN bn_rand(seed, base + 3 * ITERATION + 1)
                            ELSE bn_rand(seed, base + ITERATION + 2
                                          + 2 * (CHOOSE i \in 0..(ITERATION - 1) : ToString(i) = key))]
              alpha_tilde == bn_rand(seed, base + 3 * ITERATION + 2)
          IN IF k \notin DOMAIN m_tilde
             THEN Err("Value by key not found in eq_proof.mtilde", base + 3 * ITERATION + 3)
             ELSE Ok([c_list |-> c_list_values,
                      tau_list |-> calc_tge(p_pub_key, u_tilde, r_tilde,
                                           bn_rand(seed, base + 3 * ITERATION + 3),
                                           alpha_tilde, t),
                      u |-> u, u_tilde |-> u_tilde, r |-> r, r_tilde |-> r_tilde,
                      alpha_tilde |-> alpha_tilde, predicate |-> predicate, t |-> t],
                     base + 3 * ITERATION + 3)

_init_ge_proof(p_pub_key, m_tilde, cred_values, predicate, seed, base) ==
    LET k == predicate.attr_name
        value == predicate.value
    IN IF k \notin DOMAIN cred_values.attrs_values
       THEN Err("Value by key not found in cred_values", base)
       ELSE
       LET attr_value == cred_values.attrs_values[k].value
           delta == i32_sub(attr_value, value)
       IN IF delta < 0 THEN Err("Predicate is not satisfied", base)
          ELSE
          LET u == four_squares(delta)
              r == [key \in IterKeys \cup {"DELTA"} |->
                      IF key = "DELTA" THEN bn_rand(seed, base + ITERATION)
                      ELSE bn_rand(seed, base + (CHOOSE i \in 0..(ITERATION - 1) : ToString(i) = key))]
              t == [key \in IterKeys \cup {"DELTA"} |->
                      IF key = "DELTA"
                      THEN get_pedersen_commitment(p_pub_key.z, delta, p_pub_key.s, r[key], p_pub_key.n)
                      ELSE get_pedersen_commitment(p_pub_key.z, u[key], p_pub_key.s, r[key], p_pub_key.n)]
              c_list_values == [i \in 1..(ITERATION + 1) |->
                            IF i = ITERATION + 1 THEN t["DELTA"] ELSE t[ToString(i - 1)]]
              u_tilde == [key \in IterKeys |->
                            bn_rand(seed, base + ITERATION + 1
                                          + 2 * (CHOOSE i \in 0..(ITERATION - 1) : ToString(i) = key))]
              r_tilde == [key \in IterKeys \cup {"DELTA"} |->
                            IF key = "DELTA" THEN bn_rand(seed, base + 3 * ITERATION + 1)
                            ELSE bn_rand(seed, base + ITERATION + 2
                                          + 2 * (CHOOSE i \in 0..(ITERATION - 1) : ToString(i) = key))]
              alpha_tilde == bn_rand(seed, base + 3 * ITERATION + 2)
          IN IF k \notin DOMAIN m_tilde
             THEN Err("Value by key not found in eq_proof.mtilde", base + 3 * ITERATION + 3)
             ELSE Ok([c_list |-> c_list_values,
                      tau_list |-> calc_tge(p_pub_key, u_tilde, r_tilde, m_tilde[k], alpha_tilde, t),
                      u |-> u, u_tilde |-> u_tilde, r |-> r, r_tilde |-> r_tilde,
                      alpha_tilde |-> alpha_tilde, predicate |-> predicate, t |-> t],
                     base + 3 * ITERATION + 3)

RECURSIVE init_ge_proofs(_, _, _, _, _, _, _)
init_ge_proofs(p_pub_key, m_tilde, cred_values, predicates, i, seed, base) ==
    IF i > Len(predicates) THEN Ok(<<>>, base)
    ELSE LET ge_proof == _init_ge_proof(p_pub_key, m_tilde, cred_values, predicates[i],
                                        seed, base)
         IN IF ~ge_proof.ok THEN ge_proof
            ELSE LET rest == init_ge_proofs(p_pub_key, m_tilde, cred_values, predicates,
                                            i + 1, seed, ge_proof.next)
                 IN IF ~rest.ok THEN rest
                    ELSE Ok(<<ge_proof.val>> \o rest.val, rest.next)

_init_primary_proof(issuer_pub_key, c1, cred_values, cred_schema, sub_proof_request, m2_t, seed, base) ==
    LET eq_proof == _init_eq_proof(issuer_pub_key, c1, cred_schema, sub_proof_request,
                                   m2_t, seed, base)
        ge_proofs == init_ge_proofs(issuer_pub_key, eq_proof.val.m_tilde, cred_values,
                                    sub_proof_request.predicates, 1, seed, eq_proof.next)
    IN IF ~ge_proofs.ok THEN ge_proofs
       ELSE Ok([eq_proof |-> eq_proof.val, ge_proofs |-> ge_proofs.val], ge_proofs.next)

RECURSIVE Flatten(_)
Flatten(seqs) == IF seqs = <<>> THEN <<>> ELSE Head(seqs) \o Flatten(Tail(seqs))

\* PrimaryInitProof::as_c_list / as_tau_list
PrimaryInitProof_as_c_list(self) ==
    <<self.eq_proof.a_prime>> \o
    Flatten([i \in 1..Len(self.ge_proofs) |-> self.ge_proofs[i].c_list])

PrimaryInitProof_as_tau_list(self) ==
    <<self.eq_proof.t>> \o
    Flatten([i \in 1..Len(self.ge_proofs) |-> self.ge_proofs[i].tau_list])

\* an insert that keeps the value already stored under the key
BTreeMap_insert_if_absent(map, key, value) == map @@ (key :> value)

\* BTreeMap::insert: a value already stored under the key is replaced
BTreeMap_insert(map, key, value) == (key :> value) @@ map

\* the new elements put in front of the vector instead of behind it
extend_from_slice_front(vec, other) == other \o vec

\* Vec::extend_from_slice
extend_from_slice(vec, other) == vec \o other

\* the keys of a BTreeMap in iteration order
RECURSIVE BTreeMap_keys(_)
BTreeMap_keys(map) ==
    IF DOMAIN map = {} THEN <<>>
    ELSE LET k == CHOOSE x \in DOMAIN map : \A y \in DOMAIN map : x <= y
         IN <<k>> \o BTreeMap_keys([x \in (DOMAIN map) \ {k} |-> map[x]])

new_proof_builder == [init_proofs |-> <<>>, c_list |-> <<>>, tau_list |-> <<>>]

\* what add_sub_proof_request computes from its arguments alone: the outcome
\* of the consistency check, whether a non-revocation proof is made, and the
\* two init proofs (the primary one starts drawing where the other stopped)
sub_proof_init_proofs(sub_proof_request, credential_schema, p_credential, r_credential, credential_values, credential_pub_key, rev_reg, witness, seed) ==
    LET check == _check_add_sub_proof_request_params_consistency(
                    credential_values, sub_proof_request, credential_schema)
        revocable == /\ IsSome(r_credential)
                     /\ IsSome(rev_reg)
                     /\ IsSome(credential_pub_key.r_key)
                     /\ IsSome(witness)
    IN IF ~check.ok
       THEN [check |-> check, revocable |-> revocable, proof |-> check,
             primary_init_proof |-> check]
       ELSE
       LET non_revoc_init_proof ==
               IF revocable
               THEN _init_non_revocation_proof(r_credential[1],
                                               rev_reg[1], credential_pub_key.r_key[1],
                                               witness[1], seed, 0)
               ELSE Ok(<<>>, 0)
           m2_tilde ==
               IF revocable
               THEN Some(group_element_to_bignum(non_revoc_init_proof.val.tau_list_params.m2))
               ELSE None
       IN [check |-> check,
           revocable |-> revocable,
           proof |-> non_revoc_init_proof,
           primary_init_proof |->
              _init_primary_proof(credential_pub_key.p_key, p_credential,
                                  credential_values, credential_schema,
                                  sub_proof_request, m2_tilde, seed,
                                  non_revoc_init_proof.next)]

\* the non-revocation init proof contributes to the lists and is not stored
add_sub_proof_request_to_without_storing(self, key_id, sub_proof_request, credential_schema, credential_values, made) ==
    IF ~made.check.ok THEN [self |-> self, res |-> made.check, init_proof |-> None]
    ELSE
    LET self1 ==
           IF made.revocable
           THEN [self EXCEPT
                   !.c_list = extend_from_slice(@, NonRevocInitProof_as_c_list(made.proof.val)),
                   !.tau_list = extend_from_slice(@, NonRevocInitProof_as_tau_list(made.proof.val))]
           ELSE self
        init_proof ==
           [primary_init_proof |-> made.primary_init_proof.val,
            non_revoc_init_proof |-> None,
            credential_values |-> credential_values,
            sub_proof_request |-> sub_proof_request,
            credential_schema |-> credential_schema]
    IN IF ~made.primary_init_proof.ok
       THEN [self |-> self1, res |-> made.primary_init_proof, init_proof |-> None]
       ELSE [self |-> [init_proofs |-> BTreeMap_insert(self1.init_proofs, key_id, init_proof),
                       c_list |-> extend_from_slice(self1.c_list,
                                     PrimaryInitProof_as_c_list(made.primary_init_proof.val)),
                       tau_list |-> extend_from_slice(self1.tau_list,
                                     PrimaryInitProof_as_tau_list(made.primary_init_proof.val))],
             res |-> Ok(<<>>, made.primary_init_proof.next),
             init_proof |-> Some(init_proof)]

\* the entry is stored before the primary init proof is made
add_sub_proof_request_to_storing_first(self, key_id, sub_proof_request, credential_schema, credential_values, made) ==
    IF ~made.check.ok THEN [self |-> self, res |-> made.check, init_proof |-> None]
    ELSE
    LET self1 ==
           IF made.revocable
           THEN [self EXCEPT
                   !.c_list = extend_from_slice(@, NonRevocInitProof_as_c_list(made.proof.val)),
                   !.tau_list = extend_from_slice(@, NonRevocInitProof_as_tau_list(made.proof.val))]
           ELSE self
        init_proof ==
           [primary_init_proof |-> made.primary_init_proof.val,
            non_revoc_init_proof |-> IF made.revocable THEN Some(made.proof.val) ELSE None,
            credential_values |-> credential_values,
            sub_proof_request |-> sub_proof_request,
            credential_schema |-> credential_schema]
        self2 == [self1 EXCEPT !.init_proofs = BTreeMap_insert(@, key_id, init_proof)]
    IN IF ~made.primary_init_proof.ok
       THEN [self |-> self2, res |-> made.primary_init_proof, init_proof |-> None]
       ELSE [self |-> [init_proofs |-> self2.init_proofs,
                       c_list |-> extend_from_slice(self1.c_list,
                                     PrimaryInitProof_as_c_list(made.primary_init_proof.val)),
                       tau_list |-> extend_from_slice(self1.tau_list,
                                     PrimaryInitProof_as_tau_list(made.primary_init_proof.val))],
             res |-> Ok(<<>>, made.primary_init_proof.next),
             init_proof |-> Some(init_proof)]

\* what add_sub_proof_request does to the builder with the init proofs `made`:
\* returns the builder after the call, the Result of the call and the InitProof
\* the call built
add_sub_proof_request_to(self, key_id, sub_proof_request, credential_schema, credential_values, made) ==
    IF ~made.check.ok THEN [self |-> self, res |-> made.check, init_proof |-> None]
    ELSE
    LET self1 ==
           IF made.revocable
           THEN [self EXCEPT
                   !.c_list = extend_from_slice(@, NonRevocInitProof_as_c_list(made.proof.val)),
                   !.tau_list = extend_from_slice(@, NonRevocInitProof_as_tau_list(made.proof.val))]
           ELSE self
        init_proof ==
           [primary_init_proof |-> made.primary_init_proof.val,
            non_revoc_init_proof |-> IF made.revocable THEN Some(made.proof.val) ELSE None,
            credential_values |-> credential_values,
            sub_proof_request |-> sub_proof_request,
            credential_schema |-> credential_schema]
    IN IF ~made.primary_init_proof.ok
       THEN [self |-> self1, res |-> made.primary_init_proof, init_proof |-> None]
       ELSE [self |-> [init_proofs |-> BTreeMap_insert(self1.init_proofs, key_id, init_proof),
                       c_list |-> extend_from_slice(self1.c_list,
                                     PrimaryInitProof_as_c_list(made.primary_init_proof.val)),
                       tau_list |-> extend_from_slice(self1.tau_list,
                                     PrimaryInitProof_as_tau_list(made.primary_init_proof.val))],
             res |-> Ok(<<>>, made.primary_init_proof.next),
             init_proof |-> Some(init_proof)]

add_sub_proof_request(self, key_id, sub_proof_request, credential_schema, credential_signature, credential_values, credential_pub_key, rev_reg, witness, seed) ==
    add_sub_proof_request_to(
       self, key_id, sub_proof_request, credential_schema, credential_values,
       sub_proof_init_proofs(sub_proof_request, credential_schema,
                             credential_signature.p_credential,
                             credential_signature.r_credential, credential_values,
                             credential_pub_key, rev_reg, witness, seed))

(***************************************************************************)
(* ProofBuilder::finalize                                                  *)
(***************************************************************************)
_finalize_non_revocation_proof(init_proof, c_h) ==
    LET ch_num_z == bignum_to_group_element(c_h)
        x == init_proof.tau_list_params
        y == init_proof.c_list_params
    IN [x_list |-> [f \in DOMAIN x |-> add_mod(x[f], mod_neg(mul_mod(ch_num_z, y[f])))],
        c_list |-> init_proof.c_list]

\* the value of every attribute of the credential goes into revealed_attrs
_finalize_eq_proof_revealing_all(init_proof, challenge, cred_schema, cred_values, sub_proof_request) ==
    LET e == challenge * init_proof.e_prime + init_proof.e_tilde
        v == challenge * init_proof.v_prime + init_proof.v_tilde
        unrevealed_attrs == cred_schema.attrs \ sub_proof_request.revealed_attrs
        m2 == challenge * init_proof.m2 + init_proof.m2_tilde
    IN IF \E k \in unrevealed_attrs : k \notin DOMAIN init_proof.m_tilde
       THEN Err("Value by key not found in init_proof.mtilde", 0)
       ELSE IF \E k \in unrevealed_attrs : k \notin DOMAIN cred_values.attrs_values
       THEN Err("Value by key not found in attributes_values", 0)
       ELSE IF \E attr \in sub_proof_request.revealed_attrs :
                  attr \notin DOMAIN cred_values.attrs_values
       THEN Err("Encoded value not found", 0)
       ELSE Ok([revealed_attrs |-> [attr \in DOMAIN cred_values.attrs_values |->
                                        cred_values.attrs_values[attr].value],
                a_prime |-> init_proof.a_prime,
                e |-> e,
                v |-> v,
                m |-> [k \in unrevealed_attrs |->
                          challenge * cred_values.attrs_values[k].value
                          + init_proof.m_tilde[k]],
                m2 |-> m2], 0)

_finalize_eq_proof(init_proof, challenge, cred_schema, cred_values, sub_proof_request) ==
    LET e == challenge * init_proof.e_prime + init_proof.e_tilde
        v == challenge * init_proof.v_prime + init_proof.v_tilde
        unrevealed_attrs == cred_schema.attrs \ sub_proof_request.revealed_attrs
        m2 == challenge * init_proof.m2 + init_proof.m2_tilde
    IN IF \E k \in unrevealed_attrs : k \notin DOMAIN init_proof.m_tilde
       THEN Err("Value by key not found in init_proof.mtilde", 0)
       ELSE IF \E k \in unrevealed_attrs : k \notin DOMAIN cred_values.attrs_values
       THEN Err("Value by key not found in attributes_values", 0)
       ELSE IF \E attr \in sub_proof_request.revealed_attrs :
                  attr \notin DOMAIN cred_values.attrs_values
       THEN Err("Encoded value not found", 0)
       ELSE Ok([revealed_attrs |-> [attr \in sub_proof_request.revealed_attrs |->
                                        cred_values.attrs_values[attr].value],
                a_prime |-> init_proof.a_prime,
                e |-> e,
                v |-> v,
                m |-> [k \in unrevealed_attrs |->
                          challenge * cred_values.attrs_values[k].value
                          + init_proof.m_tilde[k]],
                m2 |-> m2], 0)

RECURSIVE urproduct(_, _)
urproduct(init_proof, i) ==
    IF i = 0 THEN 0
    ELSE init_proof.u[ToString(i - 1)] * init_proof.r[ToString(i - 1)]
         + urproduct(init_proof, i - 1)

\* alpha made of the products of the finalized u and r
_finalize_ge_proof_finalized_product(c_h, init_proof, eq_proof) ==
    IF \/ init_proof.predicate.attr_name \notin DOMAIN eq_proof.m
       \/ ~(IterKeys \subseteq DOMAIN init_proof.u)
       \/ ~(IterKeys \subseteq DOMAIN init_proof.u_tilde)
       \/ ~(IterKeys \cup {"DELTA"} \subseteq DOMAIN init_proof.r)
       \/ ~(IterKeys \cup {"DELTA"} \subseteq DOMAIN init_proof.r_tilde)
    THEN Err("panic: key not found in map", 0)
    ELSE Ok([u |-> [k \in IterKeys |-> c_h * init_proof.u[k] + init_proof.u_tilde[k]],
             r |-> [k \in IterKeys \cup {"DELTA"} |->
                      c_h * init_proof.r[k] + init_proof.r_tilde[k]],
             mj |-> eq_proof.m[init_proof.predicate.attr_name],
             alpha |-> (init_proof.r["DELTA"]
                        - urproduct([u |-> [k \in IterKeys |->
                                              c_h * init_proof.u[k] + init_proof.u_tilde[k]],
                                     r |-> [k \in IterKeys |->
                                              c_h * init_proof.r[k] + init_proof.r_tilde[k]]],
                                    ITERATION)) * c_h
                       + init_proof.alpha_tilde,
             t |-> init_proof.t,
             predicate |-> init_proof.predicate], 0)

_finalize_ge_proof(c_h, init_proof, eq_proof) ==
    IF \/ init_proof.predicate.attr_name \notin DOMAIN eq_proof.m
       \/ ~(IterKeys \subseteq DOMAIN init_proof.u)
       \/ ~(IterKeys \subseteq DOMAIN init_proof.u_tilde)
       \/ ~(IterKeys \cup {"DELTA"} \subseteq DOMAIN init_proof.r)
       \/ ~(IterKeys \cup {"DELTA"} \subseteq DOMAIN init_proof.r_tilde)
    THEN Err("panic: key not found in map", 0)
    ELSE Ok([u |-> [k \in IterKeys |-> c_h * init_proof.u[k] + init_proof.u_tilde[k]],
             r |-> [k \in IterKeys \cup {"DELTA"} |->
                      c_h * init_proof.r[k] + init_proof.r_tilde[k]],
             mj |-> eq_proof.m[init_proof.predicate.attr_name],
             alpha |-> (init_proof.r["DELTA"] - urproduct(init_proof, ITERATION)) * c_h
                       + init_proof.alpha_tilde,
             t |-> init_proof.t,
             predicate |-> init_proof.predicate], 0)

_finalize_primary_proof(init_proof, challenge, cred_schema, cred_values, sub_proof_request) ==
    LET eq_proof == _finalize_eq_proof(init_proof.eq_proof, challenge, cred_schema,
                                       cred_values, sub_proof_request)
    IN IF ~eq_proof.ok THEN eq_proof
       ELSE
       LET ge_proofs == [i \in 1..Len(init_proof.ge_proofs) |->
                            _finalize_ge_proof(challenge, init_proof.ge_proofs[i], eq_proof.val)]
       IN IF \E i \in DOMAIN ge_proofs : ~ge_proofs[i].ok
          THEN ge_proofs[CHOOSE i \in DOMAIN ge_proofs :
                            ~ge_proofs[i].ok /\ \A j \in 1..(i - 1) : ge_proofs[j].ok]
          ELSE Ok([eq_proof |-> eq_proof.val,
                   ge_proofs |-> [i \in DOMAIN ge_proofs |-> ge_proofs[i].val]], 0)

\* c_list hashed before tau_list
challenge_values_c_list_first(self, nonce) ==
    extend_from_slice(extend_from_slice(<<>>, self.c_list), self.tau_list) \o <<nonce>>

\* the byte strings finalize hashes into the challenge
challenge_values(self, nonce) ==
    extend_from_slice(extend_from_slice(<<>>, self.tau_list), self.c_list) \o <<nonce>>

finalize(self, nonce) ==
    LET values == challenge_values(self, nonce)
        challenge == get_hash_as_int(values)
        keys == BTreeMap_keys(self.init_proofs)
        primary(k) ==
            LET init_proof == self.init_proofs[k]
            IN _finalize_primary_proof(init_proof.primary_init_proof, challenge,
                                       init_proof.credential_schema,
                                       init_proof.credential_values,
                                       init_proof.sub_proof_request)
        non_revoc(k) ==
            LET init_proof == self.init_proofs[k]
            IN IF IsSome(init_proof.non_revoc_init_proof)
               THEN Some(_finalize_non_revocation_proof(init_proof.non_revoc_init_proof[1],
                                                        challenge))
               ELSE None
    IN IF \E i \in DOMAIN keys : ~primary(keys[i]).ok
       THEN primary(keys[CHOOSE i \in DOMAIN keys :
                            ~primary(keys[i]).ok /\ \A j \in 1..(i - 1) : primary(keys[j]).ok])
       ELSE Ok([proofs |-> [k \in DOMAIN self.init_proofs |->
                              [primary_proof |-> primary(k).val,
                               non_revoc_proof |-> non_revoc(k)]],
                aggregated_proof |-> [c_hash |-> challenge, c_list |-> self.c_list]], 0)

(***************************************************************************)
(* The verifier: the mirror equations of the sub-proofs                    *)
(***************************************************************************)
\* T-hat of an equality proof
Verifier_verify_equality(p_pub_key, proof, c_h) ==
    LET revealed == SetToSeq(DOMAIN proof.revealed_attrs)
        rar == mod_mul(mod_exp(proof.a_prime, 2 ^ LARGE_E_START, p_pub_key.n),
                       get_exponentiated_generators(
                          [i \in 1..Len(revealed) |->
                              <<p_pub_key.r[revealed[i]], proof.revealed_attrs[revealed[i]]>>],
                          p_pub_key.n),
                       p_pub_key.n)
        t1 == calc_teq(p_pub_key, proof.a_prime, proof.e, proof.v, proof.m, proof.m2,
                       DOMAIN proof.m)
        t2 == mod_exp(mod_div(p_pub_key.z, rar, p_pub_key.n), 0 - c_h, p_pub_key.n)
    IN <<mod_mul(t1, t2, p_pub_key.n)>>

\* T-hat values of a GE predicate proof
Verifier_verify_ge_predicate(p_pub_key, proof, c_h) ==
    LET n == p_pub_key.n
        tau == calc_tge(p_pub_key, proof.u, proof.r, proof.mj, proof.alpha, proof.t)
    IN [i \in 1..ITERATION |->
           mod_mul(mod_exp(proof.t[ToString(i - 1)], 0 - c_h, n), tau[i], n)]
       \o <<mod_mul(mod_exp(mod_mul(proof.t["DELTA"],
                                    mod_exp(p_pub_key.z, proof.predicate.value, n), n),
                            0 - c_h, n),
                    tau[ITERATION + 1], n),
            mod_mul(mod_exp(proof.t["DELTA"], 0 - c_h, n), tau[ITERATION + 2], n)>>

Verifier_verify_primary_proof(p_pub_key, c_hash, primary_proof) ==
    Verifier_verify_equality(p_pub_key, primary_proof.eq_proof, c_hash)
    \o Flatten([i \in 1..Len(primary_proof.ge_proofs) |->
                   Verifier_verify_ge_predicate(p_pub_key, primary_proof.ge_proofs[i], c_hash)])

\* what T1..T8 evaluate to on the secrets themselves
create_tau_list_expected_values(r_pub_key, rev_reg, rev_key_pub, proof_c) ==
    LET pk == r_pub_key
    IN [t1 |-> proof_c.e,
        t2 |-> 0,
        t3 |-> add_mod(pair(add_mod(pk.h0, proof_c.g), pk.h_cap),
                       mod_neg(pair(proof_c.a, pk.y))),
        t4 |-> add_mod(pair(proof_c.g, rev_reg.accum),
                       mod_neg(add_mod(pair(pk.g, proof_c.w), rev_key_pub.z))),
        t5 |-> proof_c.d,
        t6 |-> 0,
        t7 |-> add_mod(pair(add_mod(pk.pk, proof_c.g), proof_c.s),
                       mod_neg(pair(pk.g, pk.g_dash))),
        t8 |-> add_mod(pair(proof_c.g, pk.u), mod_neg(pair(pk.g, proof_c.u)))]

\* T-hat values of a non-revocation proof
Verifier_verify_non_revocation_proof(r_pub_key, rev_reg, rev_key_pub, c_hash, proof) ==
    LET ch_num_z == bignum_to_group_element(c_hash)
        t_hat_expected == create_tau_list_expected_values(r_pub_key, rev_reg, rev_key_pub,
                                                          proof.c_list)
        t_hat_calc == create_tau_list_values(r_pub_key, rev_reg, proof.x_list, proof.c_list)
        t == [f \in DOMAIN t_hat_calc |->
                 add_mod(mul_mod(t_hat_expected[f], ch_num_z), t_hat_calc[f])]
    IN <<t.t1, t.t2, t.t3, t.t4, t.t5, t.t6, t.t7, t.t8>>

\* the tau values recomputed from the emitted sub-proofs, taken in `order`
Verifier_tau_list(full_proof, order) ==
    Flatten([i \in 1..Len(order) |->
        LET proof_item == full_proof.proofs[order[i]]
        IN (IF IsSome(proof_item.non_revoc_proof)
            THEN Verifier_verify_non_revocation_proof(
                    mocks_credential_revocation_public_key, mocks_revocation_registry,
                    mocks_revocation_key_public, full_proof.aggregated_proof.c_hash,
                    proof_item.non_revoc_proof[1])
            ELSE <<>>)
           \o Verifier_verify_primary_proof(mocks_credential_primary_public_key,
                                            full_proof.aggregated_proof.c_hash,
                                            proof_item.primary_proof)])

\* ProofVerifier::verify: the recomputed challenge equals c_hash
Verifier_verify(full_proof, nonce, order) ==
    get_hash_as_int(Verifier_tau_list(full_proof, order)
                    \o full_proof.aggregated_proof.c_list \o <<nonce>>)
       = full_proof.aggregated_proof.c_hash

\* the orders in which the sub-proofs of a Proof can be taken
Orders(full_proof) ==
    LET keys == DOMAIN full_proof.proofs
    IN { f \in [1..Cardinality(keys) -> keys] : \A i, j \in DOMAIN f : f[i] = f[j] => i = j }

(***************************************************************************)
(* Prover::process_credential_signature                                    *)
(***************************************************************************)
\* the sum reduced modulo the order of the group of squares
_process_primary_credential_mod_order(p_cred, v_prime) ==
    [p_cred EXCEPT !.v = (v_prime + p_cred.v) % 6]

\* p_cred.v = v_prime + p_cred.v, in place
_process_primary_credential(p_cred, v_prime) ==
    [p_cred EXCEPT !.v = v_prime + p_cred.v]

\* the message of a generator missing from pk.r
not_found_in_pk_r(key) ==
    CASE key = "height" -> "Value by key 'height' not found in pk.r"
      [] OTHER -> "Value by key not found in pk.r"

\* S^v Rctxt^m_2 Prod R_key^value over the credential values
signature_rx(p_cred_sig, cred_values, p_pub_key) ==
    LET keys == SetToSeq(DOMAIN cred_values.attrs_values)
        generators_and_exponents ==
            <<<<p_pub_key.s, p_cred_sig.v>>, <<p_pub_key.rctxt, p_cred_sig.m_2>>>> \o
            [i \in 1..Len(keys) |->
                <<p_pub_key.r[keys[i]], cred_values.attrs_values[keys[i]].value>>]
    IN get_exponentiated_generators(generators_and_exponents, p_pub_key.n)

\* the hash comparison left out
signature_correctness_proof_valid_unchecked(p_cred_sig, signature_correctness_proof, q, p_pub_key, nonce) ==
    TRUE

\* `valid`: c recomputed from Q, A, A^(c + se * e) and the nonce equals c
signature_correctness_proof_valid(p_cred_sig, signature_correctness_proof, q, p_pub_key, nonce) ==
    LET degree == signature_correctness_proof.c
                  + signature_correctness_proof.se * p_cred_sig.e
        a_cap == mod_exp(p_cred_sig.a, degree, p_pub_key.n)
        c == get_hash_as_int(<<q, p_cred_sig.a, a_cap, nonce>>)
    IN signature_correctness_proof.c = c

\* the check without the primality test of e
_check_signature_correctness_proof_without_is_prime(p_cred_sig, cred_values, signature_correctness_proof, p_pub_key, nonce) ==
    LET missing == DOMAIN cred_values.attrs_values \ DOMAIN p_pub_key.r
    IN IF missing # {}
       THEN [res |-> Err(not_found_in_pk_r(CHOOSE k \in missing : TRUE), 0),
             evaluated |-> <<>>]
       ELSE
       LET rx == signature_rx(p_cred_sig, cred_values, p_pub_key)
           q == mod_div(p_pub_key.z, rx, p_pub_key.n)
           expected_q == mod_exp(p_cred_sig.a, p_cred_sig.e, p_pub_key.n)
       IN IF q # expected_q
          THEN [res |-> Err("Invalid Signature correctness proof", 0),
                evaluated |-> <<"q">>]
          ELSE
          LET valid == signature_correctness_proof_valid(
                          p_cred_sig, signature_correctness_proof, q, p_pub_key, nonce)
          IN IF ~valid
             THEN [res |-> Err("Invalid Signature correctness proof", 0),
                   evaluated |-> <<"q", "c">>]
             ELSE [res |-> Ok(<<>>, 0), evaluated |-> <<"q", "c">>]

\* `evaluated` lists what the check evaluated, in order: the primality of e,
\* the equation for Q, the hash c
_check_signature_correctness_proof(p_cred_sig, cred_values, signature_correctness_proof, p_pub_key, nonce) ==
    IF ~is_prime(p_cred_sig.e)
    THEN [res |-> Err("Invalid Signature correctness proof", 0),
          evaluated |-> <<"is_prime">>]
    ELSE
    LET missing == DOMAIN cred_values.attrs_values \ DOMAIN p_pub_key.r
    IN IF missing # {}
       THEN [res |-> Err(not_found_in_pk_r(CHOOSE k \in missing : TRUE), 0),
             evaluated |-> <<"is_prime">>]
       ELSE
       LET rx == signature_rx(p_cred_sig, cred_values, p_pub_key)
           q == mod_div(p_pub_key.z, rx, p_pub_key.n)
           expected_q == mod_exp(p_cred_sig.a, p_cred_sig.e, p_pub_key.n)
       IN IF q # expected_q
          THEN [res |-> Err("Invalid Signature correctness proof", 0),
                evaluated |-> <<"is_prime", "q">>]
          ELSE
          LET valid == signature_correctness_proof_valid(
                          p_cred_sig, signature_correctness_proof, q, p_pub_key, nonce)
          IN IF ~valid
             THEN [res |-> Err("Invalid Signature correctness proof", 0),
                   evaluated |-> <<"is_prime", "q", "c">>]
             ELSE [res |-> Ok(<<>>, 0), evaluated |-> <<"is_prime", "q", "c">>]

\* the test without its third comparison
_test_witness_signature_without_pair_h(r_cred, cred_rev_pub_key, rev_key_pub, rev_reg, witness, r_cnxt_m2) ==
    LET z_calc == add_mod(pair(r_cred.witness_signature.g_i, rev_reg.accum),
                          mod_neg(pair(cred_rev_pub_key.g, witness.omega)))
        pair_gg_calc == pair(add_mod(cred_rev_pub_key.pk, r_cred.g_i),
                             r_cred.witness_signature.sigma_i)
        pair_gg == pair(cred_rev_pub_key.g, cred_rev_pub_key.g_dash)
    IN IF z_calc # rev_key_pub.z THEN Err("Issuer is sending incorrect data", 0)
       ELSE IF pair_gg_calc # pair_gg THEN Err("Issuer is sending incorrect data", 0)
       ELSE Ok(<<>>, 0)

\* GT is written additively: the product of two pairings is add_mod, the
\* inverse of one is mod_neg
_test_witness_signature(r_cred, cred_rev_pub_key, rev_key_pub, rev_reg, witness, r_cnxt_m2) ==
    LET z_calc == add_mod(pair(r_cred.witness_signature.g_i, rev_reg.accum),
                          mod_neg(pair(cred_rev_pub_key.g, witness.omega)))
        pair_gg_calc == pair(add_mod(cred_rev_pub_key.pk, r_cred.g_i),
                             r_cred.witness_signature.sigma_i)
        pair_gg == pair(cred_rev_pub_key.g, cred_rev_pub_key.g_dash)
        m2 == bignum_to_group_element(r_cnxt_m2)
        pair_h1 == pair(r_cred.sigma,
                        add_mod(cred_rev_pub_key.y, mul_mod(cred_rev_pub_key.h_cap, r_cred.c)))
        pair_h2 == pair(add_mod(add_mod(add_mod(cred_rev_pub_key.h0,
                                                mul_mod(cred_rev_pub_key.h1, m2)),
                                        mul_mod(cred_rev_pub_key.h2, r_cred.vr_prime_prime)),
                                r_cred.g_i),
                        cred_rev_pub_key.h_cap)
    IN IF z_calc # rev_key_pub.z THEN Err("Issuer is sending incorrect data", 0)
       ELSE IF pair_gg_calc # pair_gg THEN Err("Issuer is sending incorrect data", 0)
       ELSE IF pair_h1 # pair_h2 THEN Err("Issuer is sending incorrect data", 0)
       ELSE Ok(<<>>, 0)

\* returns the credential after the in-place update and the Result
_process_non_revocation_credential(r_cred, vr_prime, cred_rev_pub_key, rev_key_pub, rev_reg, witness) ==
    LET r_cnxt_m2 == group_element_to_bignum(r_cred.m2)
        r_cred1 == [r_cred EXCEPT !.vr_prime_prime = add_mod(vr_prime, r_cred.vr_prime_prime)]
    IN [r_cred |-> r_cred1,
        res |-> _test_witness_signature(r_cred1, cred_rev_pub_key, rev_key_pub, rev_reg,
                                        witness, r_cnxt_m2)]

\* vr'' unblinded as soon as the credential and vr_prime are there, the witness
\* tested when all six are
process_credential_signature_unblinding_early(credential_signature, credential_values, signature_correctness_proof, credential_secrets_blinding_factors, credential_pub_key, nonce, rev_key_pub, rev_reg, witness) ==
    LET p_credential == _process_primary_credential(
                           credential_signature.p_credential,
                           credential_secrets_blinding_factors.v_prime)
        signature1 == [credential_signature EXCEPT !.p_credential = p_credential]
        check == _check_signature_correctness_proof(
                    p_credential, credential_values, signature_correctness_proof,
                    credential_pub_key.p_key, nonce)
    IN IF ~check.res.ok
       THEN [credential_signature |-> signature1, res |-> check.res,
             evaluated |-> check.evaluated]
       ELSE IF /\ IsSome(credential_signature.r_credential)
               /\ IsSome(credential_secrets_blinding_factors.vr_prime)
       THEN LET r_cred == credential_signature.r_credential[1]
                r_cred1 == [r_cred EXCEPT !.vr_prime_prime =
                               add_mod(credential_secrets_blinding_factors.vr_prime[1], @)]
                signature2 == [signature1 EXCEPT !.r_credential = Some(r_cred1)]
            IN IF /\ IsSome(credential_pub_key.r_key)
                  /\ IsSome(rev_key_pub)
                  /\ IsSome(rev_reg)
                  /\ IsSome(witness)
               THEN [credential_signature |-> signature2,
                     res |-> _test_witness_signature(
                                r_cred1, credential_pub_key.r_key[1], rev_key_pub[1],
                                rev_reg[1], witness[1], group_element_to_bignum(r_cred.m2)),
                     evaluated |-> check.evaluated \o <<"witness_signature">>]
               ELSE [credential_signature |-> signature2, res |-> check.res,
                     evaluated |-> check.evaluated]
       ELSE [credential_signature |-> signature1, res |-> check.res,
             evaluated |-> check.evaluated]

\* the signature is verified on a copy and written back on success only
process_credential_signature_verifying_a_copy(credential_signature, credential_values, signature_correctness_proof, credential_secrets_blinding_factors, credential_pub_key, nonce, rev_key_pub, rev_reg, witness) ==
    LET p_credential == _process_primary_credential(
                           credential_signature.p_credential,
                           credential_secrets_blinding_factors.v_prime)
        signature1 == [credential_signature EXCEPT !.p_credential = p_credential]
        check == _check_signature_correctness_proof(
                    p_credential, credential_values, signature_correctness_proof,
                    credential_pub_key.p_key, nonce)
        out ==
           IF ~check.res.ok
              THEN [credential_signature |-> signature1, res |-> check.res,
                    evaluated |-> check.evaluated]
              ELSE IF /\ IsSome(credential_signature.r_credential)
                      /\ IsSome(credential_secrets_blinding_factors.vr_prime)
                      /\ IsSome(credential_pub_key.r_key)
                      /\ IsSome(rev_key_pub)
                      /\ IsSome(rev_reg)
                      /\ IsSome(witness)
              THEN LET nr == _process_non_revocation_credential(
                                credential_signature.r_credential[1],
                                credential_secrets_blinding_factors.vr_prime[1],
                                credential_pub_key.r_key[1], rev_key_pub[1], rev_reg[1], witness[1])
                   IN [credential_signature |-> [signature1 EXCEPT !.r_credential = Some(nr.r_cred)],
                       res |-> nr.res,
                       evaluated |-> check.evaluated \o <<"witness_signature">>]
              ELSE [credential_signature |-> signature1, res |-> check.res,
                    evaluated |-> check.evaluated]
    IN IF out.res.ok THEN out
       ELSE [out EXCEPT !.credential_signature = credential_signature]

\* returns the credential signature as the call leaves it, the Result and what
\* the primary check evaluated
process_credential_signature(credential_signature, credential_values, signature_correctness_proof, credential_secrets_blinding_factors, credential_pub_key, nonce, rev_key_pub, rev_reg, witness) ==
    LET p_credential == _process_primary_credential(
                           credential_signature.p_credential,
                           credential_secrets_blinding_factors.v_prime)
        signature1 == [credential_signature EXCEPT !.p_credential = p_credential]
        check == _check_signature_correctness_proof(
                    p_credential, credential_values, signature_correctness_proof,
                    credential_pub_key.p_key, nonce)
    IN IF ~check.res.ok
       THEN [credential_signature |-> signature1, res |-> check.res,
             evaluated |-> check.evaluated]
       ELSE IF /\ IsSome(credential_signature.r_credential)
               /\ IsSome(credential_secrets_blinding_factors.vr_prime)
               /\ IsSome(credential_pub_key.r_key)
               /\ IsSome(rev_key_pub)
               /\ IsSome(rev_reg)
               /\ IsSome(witness)
       THEN LET nr == _process_non_revocation_credential(
                         credential_signature.r_credential[1],
                         credential_secrets_blinding_factors.vr_prime[1],
                         credential_pub_key.r_key[1], rev_key_pub[1], rev_reg[1], witness[1])
            IN [credential_signature |-> [signature1 EXCEPT !.r_credential = Some(nr.r_cred)],
                res |-> nr.res,
                evaluated |-> check.evaluated \o <<"witness_signature">>]
       ELSE [credential_signature |-> signature1, res |-> check.res,
             evaluated |-> check.evaluated]

(***************************************************************************)
(* Prover::blind_credential_secrets                                        *)
(***************************************************************************)
\* a BTreeMap<String, _> iterates in the order of its keys
NameOrder == <<"age", "email", "height", "name">>

BTreeMap_names(map) == SelectSeq(NameOrder, LAMBDA k : k \in DOMAIN map)

\* the message of an exponent missing from key_correctness_proof.xr_cap
not_found_in_xr_cap(key) ==
    CASE key = "email" -> "Value by key 'email' not found in key_correctness_proof.xr_cap"
      [] OTHER -> "Value by key not found in key_correctness_proof.xr_cap"

\* u = u * generators[key]^exponents[key] mod n for the keys in turn
RECURSIVE mul_generators(_, _, _, _, _)
mul_generators(u, keys, generators, exponents, n) ==
    IF keys = <<>> THEN u
    ELSE mul_generators(
            mod_mul(u, mod_exp(generators[Head(keys)], exponents[Head(keys)], n), n),
            Tail(keys), generators, exponents, n)

_check_credential_key_correctness_proof(pr_pub_key, key_correctness_proof) ==
    LET z_inverse == inverse(pr_pub_key.z, pr_pub_key.n)
        z_cap == get_pedersen_commitment(z_inverse, key_correctness_proof.c,
                                         pr_pub_key.s, key_correctness_proof.xz_cap,
                                         pr_pub_key.n)
        keys == BTreeMap_names(pr_pub_key.r)
        missing == SelectSeq(keys, LAMBDA k : k \notin DOMAIN key_correctness_proof.xr_cap)
    IN IF missing # <<>> THEN Err(not_found_in_xr_cap(Head(missing)), 0)
       ELSE
       LET r_cap == [k \in DOMAIN pr_pub_key.r |->
                        get_pedersen_commitment(inverse(pr_pub_key.r[k], pr_pub_key.n),
                                                key_correctness_proof.c, pr_pub_key.s,
                                                key_correctness_proof.xr_cap[k],
                                                pr_pub_key.n)]
           values == <<pr_pub_key.z>>
                     \o [i \in DOMAIN keys |-> pr_pub_key.r[keys[i]]]
                     \o <<z_cap>>
                     \o [i \in DOMAIN keys |-> r_cap[keys[i]]]
           c == get_hash_as_int(values)
           valid == key_correctness_proof.c = c
       IN IF ~valid THEN Err("Invalid Credential key correctness proof", 0)
          ELSE Ok(<<>>, 0)

\* the keys of credential_values that carry a blinding factor, in order
blinded_attrs(credential_values) ==
    SelectSeq(BTreeMap_names(credential_values.attrs_values),
              LAMBDA k : IsSome(credential_values.attrs_values[k].blinding_factor))

\* every attribute goes into u, blinded or not
_generate_primary_blinded_credential_secrets_over_all_attrs(p_pub_key, credential_values, seed, base) ==
    LET v_prime == bn_rand(seed, base)
        keys == blinded_attrs(credential_values)
        all == BTreeMap_names(credential_values.attrs_values)
        missing == SelectSeq(keys, LAMBDA k : k \notin DOMAIN p_pub_key.r)
    IN IF missing # <<>> THEN Err(not_found_in_pk_r(Head(missing)), base + 1)
       ELSE Ok([u |-> mul_generators(mod_exp(p_pub_key.s, v_prime, p_pub_key.n),
                                     SelectSeq(all, LAMBDA k : k \in DOMAIN p_pub_key.r),
                                     p_pub_key.r,
                                     [k \in DOMAIN credential_values.attrs_values |->
                                         credential_values.attrs_values[k].value],
                                     p_pub_key.n),
                v_prime |-> v_prime,
                committed_attributes |->
                   [k \in {keys[i] : i \in DOMAIN keys} |->
                       get_pedersen_commitment(
                          p_pub_key.s, credential_values.attrs_values[k].blinding_factor[1],
                          p_pub_key.z, credential_values.attrs_values[k].value,
                          p_pub_key.n)]],
               base + 1)

_generate_primary_blinded_credential_secrets(p_pub_key, credential_values, seed, base) ==
    LET v_prime == bn_rand(seed, base)
        keys == blinded_attrs(credential_values)
        missing == SelectSeq(keys, LAMBDA k : k \notin DOMAIN p_pub_key.r)
    IN IF missing # <<>> THEN Err(not_found_in_pk_r(Head(missing)), base + 1)
       ELSE Ok([u |-> mul_generators(mod_exp(p_pub_key.s, v_prime, p_pub_key.n),
                                     keys, p_pub_key.r,
                                     [k \in DOMAIN credential_values.attrs_values |->
                                         credential_values.attrs_values[k].value],
                                     p_pub_key.n),
                v_prime |-> v_prime,
                committed_attributes |->
                   [k \in {keys[i] : i \in DOMAIN keys} |->
                       get_pedersen_commitment(
                          p_pub_key.s, credential_values.attrs_values[k].blinding_factor[1],
                          p_pub_key.z, credential_values.attrs_values[k].value,
                          p_pub_key.n)]],
               base + 1)

\* ur = h2 + vr_prime in place of h2 * vr_prime
_generate_revocation_blinded_credential_secrets_adding(r_pub_key, seed, base) ==
    LET vr_prime == GroupOrderElement_new(seed, base)
    IN Ok([ur |-> add_mod(r_pub_key.h2, vr_prime), vr_prime |-> vr_prime], base + 1)

\* PointG1::mul: the point h2 taken vr_prime times
_generate_revocation_blinded_credential_secrets(r_pub_key, seed, base) ==
    LET vr_prime == GroupOrderElement_new(seed, base)
        ur == mul_mod(r_pub_key.h2, vr_prime)
    IN Ok([ur |-> ur, vr_prime |-> vr_prime], base + 1)

_new_blinded_credential_secrets_correctness_proof(p_pub_key, primary_blinded_cred_secrets, nonce, cred_values, seed, base) ==
    LET v_dash_tilde == bn_rand(seed, base)
        committed == primary_blinded_cred_secrets.committed_attributes
        keys == BTreeMap_names(committed)
        rank(k) == CHOOSE i \in DOMAIN keys : keys[i] = k
        m_tildes == [k \in DOMAIN committed |-> bn_rand(seed, base + 2 * rank(k) - 1)]
        r_tildes == [k \in DOMAIN committed |-> bn_rand(seed, base + 2 * rank(k))]
        next == base + 1 + 2 * Len(keys)
        missing == SelectSeq(keys, LAMBDA k : k \notin DOMAIN p_pub_key.r)
        unknown == SelectSeq(keys, LAMBDA k : k \notin DOMAIN cred_values.attrs_values)
    IN IF missing # <<>>
       THEN Err(not_found_in_pk_r(Head(missing)),
                base + 1 + 2 * (CHOOSE i \in DOMAIN keys : keys[i] = Head(missing)))
       ELSE
       LET u_tilde == mul_generators(mod_exp(p_pub_key.s, v_dash_tilde, p_pub_key.n),
                                     keys, p_pub_key.r, m_tildes, p_pub_key.n)
           commitment_tilde(k) ==
               get_pedersen_commitment(p_pub_key.z, m_tildes[k],
                                       p_pub_key.s, r_tildes[k], p_pub_key.n)
           values == Flatten([i \in DOMAIN keys |->
                                 <<commitment_tilde(keys[i]), committed[keys[i]]>>])
                     \o <<primary_blinded_cred_secrets.u, u_tilde, nonce>>
           c == get_hash_as_int(values)
           v_dash_cap == c * primary_blinded_cred_secrets.v_prime + v_dash_tilde
       IN IF unknown # <<>>
          THEN Err("Value by key not found in cred_values.committed_attributes", next)
          ELSE IF \E k \in DOMAIN committed :
                     ~IsSome(cred_values.attrs_values[k].blinding_factor)
          THEN Err("Blinding Factor by key does not contain a value in cred_values.committed_attributes",
                   next)
          ELSE Ok([c |-> c,
                   v_dash_cap |-> v_dash_cap,
                   m_caps |-> [k \in DOMAIN committed |->
                                  m_tildes[k] + c * cred_values.attrs_values[k].value],
                   r_caps |-> [k \in DOMAIN committed |->
                                  r_tildes[k]
                                  + c * cred_values.attrs_values[k].blinding_factor[1]]],
                  next)

\* the secrets generated before the key correctness proof is looked at
blind_credential_secrets_checking_last(credential_pub_key, credential_key_correctness_proof, credential_values, credential_nonce, seed) ==
    LET primary == _generate_primary_blinded_credential_secrets(
                      credential_pub_key.p_key, credential_values, seed, 0)
        check == _check_credential_key_correctness_proof(
                    credential_pub_key.p_key, credential_key_correctness_proof)
    IN IF ~primary.ok THEN primary
       ELSE IF ~check.ok THEN Err(check.msg, primary.next)
       ELSE
       LET revocation ==
              IF IsSome(credential_pub_key.r_key)
              THEN _generate_revocation_blinded_credential_secrets(
                      credential_pub_key.r_key[1], seed, primary.next)
              ELSE Ok(<<>>, primary.next)
           correctness_proof ==
              _new_blinded_credential_secrets_correctness_proof(
                 credential_pub_key.p_key, primary.val, credential_nonce,
                 credential_values, seed, revocation.next)
       IN IF ~correctness_proof.ok THEN correctness_proof
          ELSE Ok([blinded_credential_secrets |->
                      [u |-> primary.val.u,
                       ur |-> IF IsSome(credential_pub_key.r_key)
                              THEN Some(revocation.val.ur) ELSE None,
                       committed_attributes |-> primary.val.committed_attributes],
                   credential_secrets_blinding_factors |->
                      [v_prime |-> primary.val.v_prime,
                       vr_prime |-> IF IsSome(credential_pub_key.r_key)
                                    THEN Some(revocation.val.vr_prime) ELSE None],
                   blinded_credential_secrets_correctness_proof |-> correctness_proof.val],
                  correctness_proof.next)

\* `next` of the Result counts the random numbers the call drew
blind_credential_secrets(credential_pub_key, credential_key_correctness_proof, credential_values, credential_nonce, seed) ==
    LET check == _check_credential_key_correctness_proof(
                    credential_pub_key.p_key, credential_key_correctness_proof)
    IN IF ~check.ok THEN check
       ELSE
       LET primary == _generate_primary_blinded_credential_secrets(
                         credential_pub_key.p_key, credential_values, seed, 0)
       IN IF ~primary.ok THEN primary
          ELSE
          LET revocation ==
                 IF IsSome(credential_pub_key.r_key)
                 THEN _generate_revocation_blinded_credential_secrets(
                         credential_pub_key.r_key[1], seed, primary.next)
                 ELSE Ok(<<>>, primary.next)
              correctness_proof ==
                 _new_blinded_credential_secrets_correctness_proof(
                    credential_pub_key.p_key, primary.val, credential_nonce,
                    credential_values, seed, revocation.next)
          IN IF ~correctness_proof.ok THEN correctness_proof
             ELSE Ok([blinded_credential_secrets |->
                         [u |-> primary.val.u,
                          ur |-> IF IsSome(credential_pub_key.r_key)
                                 THEN Some(revocation.val.ur) ELSE None,
                          committed_attributes |-> primary.val.committed_attributes],
                      credential_secrets_blinding_factors |->
                         [v_prime |-> primary.val.v_prime,
                          vr_prime |-> IF IsSome(credential_pub_key.r_key)
                                       THEN Some(revocation.val.vr_prime) ELSE None],
                      blinded_credential_secrets_correctness_proof |-> correctness_proof.val],
                     correctness_proof.next)

(***************************************************************************)
(* The proof builder as a state machine                                    *)
(***************************************************************************)
VARIABLES
    init_proofs,        \* ProofBuilder.init_proofs: key_id -> InitProof
    c_list,             \* ProofBuilder.c_list
    tau_list,           \* ProofBuilder.tau_list
    op,                 \* the last operation applied to the builder
    result,             \* the Result it returned
    draws,              \* how many random numbers it sampled
    proof,              \* the Proof it returned, when it was finalize
    finalize_nonce,     \* the nonce it was given, when it was finalize
    log                 \* the calls that appended to the builder, in order;
                        \* a failed one is recorded without its key_id

builder_vars == <<init_proofs, c_list, tau_list, op, result, draws, proof,
                  finalize_nonce, log>>

VARIABLES
    credential_signature,   \* the CredentialSignature the prover holds, updated in place
    issuance,               \* the other arguments of process_credential_signature
    processed,              \* how many times the signature has been processed
    process_result,         \* the Result of the last process_credential_signature
    evaluated               \* what its primary check evaluated, in order

signature_vars == <<credential_signature, issuance, processed, process_result, evaluated>>

VARIABLES
    blind_input,            \* the arguments of blind_credential_secrets
    blind_seed,             \* the seed of the random stream of the last call
    blinded,                \* what the last call returned in Ok, if it did
    blind_result,           \* the Result of the last call
    blind_draws,            \* how many random numbers the last call drew
    blind_calls             \* how many times blind_credential_secrets was called

blind_vars == <<blind_input, blind_seed, blinded, blind_result, blind_draws, blind_calls>>

vars == <<builder_vars, signature_vars, blind_vars>>

ProofBuilder == [init_proofs |-> init_proofs, c_list |-> c_list, tau_list |-> tau_list]

FullSchema == [attrs |-> {"age", "name"}]

EmptyRequest == [revealed_attrs |-> {}, predicates |-> <<>>]
AgeRequest == [revealed_attrs |-> {"name"}, predicates |-> <<Predicate("age", 18)>>]
TwoPredicatesRequest ==
    [revealed_attrs |-> {}, predicates |-> <<Predicate("age", 18), Predicate("name", 3)>>]
SecondPredicateViolatedRequest ==
    [revealed_attrs |-> {}, predicates |-> <<Predicate("age", 18), Predicate("name", 9)>>]
\* 35 - (-2^31) does not fit an i32
OverflowRequest == [revealed_attrs |-> {}, predicates |-> <<Predicate("age", I32_MIN)>>]
RevealedPredicateRequest ==
    [revealed_attrs |-> {"age"}, predicates |-> <<Predicate("age", 18)>>]

\* requests naming an attribute the credential does not have
ForeignRequests ==
    { [revealed_attrs |-> {"email"}, predicates |-> <<>>],
      [revealed_attrs |-> {}, predicates |-> <<Predicate("email", 18)>>],
      [revealed_attrs |-> {"email"}, predicates |-> <<Predicate("email", 18)>>] }

\* the optional revocation inputs of one call
NoRevocation ==
    [r_credential |-> None, r_key |-> None, rev_reg |-> None, witness |-> None]
FullRevocation ==
    [r_credential |-> Some(mocks_revocation_credential),
     r_key |-> Some(mocks_credential_revocation_public_key),
     rev_reg |-> Some(mocks_revocation_registry),
     witness |-> Some(mocks_witness)]
RevocationInputs ==
    { NoRevocation, FullRevocation, [FullRevocation EXCEPT !.witness = None] }
\* all four revocation inputs but one
PartialRevocationInputs ==
    { [FullRevocation EXCEPT !.r_credential = None],
      [FullRevocation EXCEPT !.r_key = None],
      [FullRevocation EXCEPT !.rev_reg = None],
      [FullRevocation EXCEPT !.witness = None] }

AddInput(values, schema, request, rev, seed) ==
    [sub_proof_request |-> request,
     credential_schema |-> schema,
     credential_signature |-> [p_credential |-> mocks_primary_credential(values, 5),
                               r_credential |-> rev.r_credential],
     credential_values |-> values,
     credential_pub_key |-> [p_key |-> mocks_credential_primary_public_key,
                             r_key |-> rev.r_key],
     rev_reg |-> rev.rev_reg,
     witness |-> rev.witness,
     seed |-> seed]

\* the arguments of one add_sub_proof_request call, key_id aside
AddInputs ==
    { AddInput(mocks_credential_values(35), FullSchema, AgeRequest, NoRevocation, seed) :
        seed \in Seeds }
    \cup
    { AddInput(mocks_credential_values(35), FullSchema, rq, rev, 0) :
        rq \in {EmptyRequest, AgeRequest}, rev \in RevocationInputs }
    \cup
    { AddInput(mocks_credential_values(35), FullSchema, rq, NoRevocation, 0) :
        rq \in {TwoPredicatesRequest, SecondPredicateViolatedRequest, OverflowRequest} }
    \cup
    { AddInput(mocks_credential_values(17), FullSchema, rq, rev, 0) :
        rq \in {AgeRequest, TwoPredicatesRequest}, rev \in {NoRevocation, FullRevocation} }
    \cup
    { AddInput(mocks_credential_values(35), FullSchema, RevealedPredicateRequest, rev, 0) :
        rev \in {NoRevocation, FullRevocation} }
    \cup
    { AddInput(mocks_credential_values(35), sc, rq, rev, 0) :
        sc \in {FullSchema, [attrs |-> {"age"}]},
        rq \in ForeignRequests,
        rev \in {NoRevocation, FullRevocation} }
    \cup
    { AddInput(mocks_credential_values(35), [attrs |-> {"age"}], EmptyRequest, rev, 0) :
        rev \in {NoRevocation, FullRevocation} }
    \cup
    { AddInput(mocks_credential_values(35), FullSchema, EmptyRequest, rev, 0) :
        rev \in PartialRevocationInputs }

(***************************************************************************)
(* What the issuer sends, and what may be wrong with it                    *)
(***************************************************************************)
\* the order of the group of squares of Z_35^*
QROrder == 6

\* Issuer::sign_credential: c = H(Q, A, Q^r, nonce), se = r - c * d mod the order
mocks_signature_correctness_proof(p_cred, nonce, r) ==
    LET pk == mocks_credential_primary_public_key
        q == mod_exp(p_cred.a, p_cred.e, pk.n)
        d == IF \E x \in 1..QROrder : (x * p_cred.e) % QROrder = 1
             THEN CHOOSE x \in 1..QROrder : (x * p_cred.e) % QROrder = 1
             ELSE 0
        a_cap == mod_exp(q, r, pk.n)
        c == get_hash_as_int(<<q, p_cred.a, a_cap, nonce>>)
    IN [c |-> c, se |-> (r + QROrder * c * d - c * d) % QROrder]

\* the exponents an issuer may send: primes below, in and above the range of
\* e, and a composite
Es == {3, 5, 7, 25}
VPrimes == {0, 1, 2}
Faults == {"none", "a", "v", "m_2", "c", "se", "nonce", "values", "height", "r_key"}
\* what comes with the revocation part: nothing, all of it, all but one of the
\* six inputs, or all of it with one value the pairing identities reject
ProcessRevocations ==
    {"none", "full", "no_witness", "omega", "sigma_i", "sigma",
     "no_r_credential", "no_vr_prime", "no_rev_key_pub", "no_rev_reg"}

\* one issuance: the issuer signs for the blinding factor v_prime; `fault` says
\* what differs between what was signed and what the prover is given
Issuance(e, v_prime, fault, rev) ==
    LET values == mocks_credential_values(35)
        signed == mocks_primary_credential(values, e)
        scp == mocks_signature_correctness_proof(signed, 1, 1)
        sent == [signed EXCEPT !.v = @ - v_prime]
        p_credential ==
            CASE fault = "a" -> [sent EXCEPT !.a = (@ * 4) % 35]
              [] fault = "v" -> [sent EXCEPT !.v = @ + 1]
              [] fault = "m_2" -> [sent EXCEPT !.m_2 = @ + 1]
              [] OTHER -> sent
        r_sent == [mocks_revocation_credential EXCEPT
                       !.vr_prime_prime = add_mod(@, mod_neg(v_prime + 1))]
        r_credential ==
            CASE rev \in {"none", "no_r_credential"} -> None
              [] rev = "sigma_i" -> Some([r_sent EXCEPT !.witness_signature.sigma_i = 5])
              [] rev = "sigma" -> Some([r_sent EXCEPT !.sigma = 5])
              [] OTHER -> Some(r_sent)
    IN [credential_signature |-> [p_credential |-> p_credential,
                                  r_credential |-> r_credential],
        credential_values |->
            CASE fault = "values" -> mocks_credential_values(17)
              [] fault = "height" ->
                   [attrs_values |-> values.attrs_values @@
                       ("height" :> [value |-> 180, blinding_factor |-> None])]
              [] OTHER -> values,
        signature_correctness_proof |->
            CASE fault = "c" -> [scp EXCEPT !.c = (@ + 1) % 5]
              [] fault = "se" -> [scp EXCEPT !.se = @ + 1]
              [] OTHER -> scp,
        credential_secrets_blinding_factors |->
            [v_prime |-> v_prime,
             vr_prime |-> IF rev \in {"none", "no_vr_prime"} THEN None
                          ELSE Some(v_prime + 1)],
        credential_pub_key |->
            [p_key |-> mocks_credential_primary_public_key,
             r_key |-> IF rev = "none" \/ fault = "r_key" THEN None
                       ELSE Some(mocks_credential_revocation_public_key)],
        nonce |-> IF fault = "nonce" THEN 2 ELSE 1,
        rev_key_pub |-> IF rev \in {"none", "no_rev_key_pub"} THEN None
                        ELSE Some(mocks_revocation_key_public),
        rev_reg |-> IF rev \in {"none", "no_rev_reg"} THEN None
                    ELSE Some(mocks_revocation_registry),
        witness |-> CASE rev \in {"none", "no_witness"} -> None
                      [] rev = "omega" -> Some([omega |-> 5])
                      [] OTHER -> Some(mocks_witness)]

Issuances ==
    { Issuance(e, v_prime, fault, rev) :
        e \in Es, v_prime \in VPrimes, fault \in Faults, rev \in ProcessRevocations }

\* Issuer::new_credential_def: Z = S^xz, R_i = S^xr_i; c is the hash of Z, the
\* R_i, S^xz_tilde and the S^xr_tilde_i, `names` giving the order of the R_i in
\* it; xz_cap = c xz + xz_tilde, xr_cap_i = c xr_i + xr_tilde_i
mocks_credential_key_correctness_proof(names) ==
    LET pk == mocks_credential_primary_public_key
        xz == 2
        xr == ("age" :> 4) @@ ("email" :> 1) @@ ("name" :> 5)
        xz_tilde == 1
        xr_tilde == ("age" :> 2) @@ ("email" :> 3) @@ ("name" :> 1)
        c == get_hash_as_int(
                <<pk.z>> \o [i \in DOMAIN names |-> pk.r[names[i]]]
                \o <<mod_exp(pk.s, xz_tilde, pk.n)>>
                \o [i \in DOMAIN names |-> mod_exp(pk.s, xr_tilde[names[i]], pk.n)])
    IN [c |-> c,
        xz_cap |-> c * xz + xz_tilde,
        xr_cap |-> [k \in DOMAIN pk.r |-> c * xr[k] + xr_tilde[k]]]

KeyProofFaults == {"none", "c", "xz_cap", "xr_cap", "xr_cap_missing", "r_order"}

\* which attributes the prover holds and which of them it blinds
BlindValues ==
    { mocks_credential_values(35),
      [attrs_values |->
          ("age" :> [value |-> 35, blinding_factor |-> Some(1)]) @@
          ("name" :> [value |-> 7, blinding_factor |-> Some(2)])],
      [attrs_values |->
          ("age" :> [value |-> 35, blinding_factor |-> None]) @@
          ("name" :> [value |-> 7, blinding_factor |-> None])],
      [attrs_values |->
          mocks_credential_values(35).attrs_values @@
          ("height" :> [value |-> 180, blinding_factor |-> Some(3)])],
      [attrs_values |->
          mocks_credential_values(35).attrs_values @@
          ("height" :> [value |-> 180, blinding_factor |-> None])] }

\* the arguments of one blind_credential_secrets call, the seed aside
BlindInput(fault, revocable, values, nonce) ==
    LET kcp == mocks_credential_key_correctness_proof(<<"age", "email", "name">>)
    IN [credential_pub_key |->
           [p_key |-> mocks_credential_primary_public_key,
            r_key |-> IF revocable THEN Some(mocks_credential_revocation_public_key)
                      ELSE None],
        credential_key_correctness_proof |->
           CASE fault = "c" -> [kcp EXCEPT !.c = (@ + 1) % 5]
             [] fault = "xz_cap" -> [kcp EXCEPT !.xz_cap = @ + 1]
             [] fault = "xr_cap" -> [kcp EXCEPT !.xr_cap["name"] = @ + 1]
             [] fault = "xr_cap_missing" ->
                  [kcp EXCEPT !.xr_cap = [k \in {"age", "name"} |-> kcp.xr_cap[k]]]
             [] fault = "r_order" ->
                  mocks_credential_key_correctness_proof(<<"name", "email", "age">>)
             [] OTHER -> kcp,
        credential_values |-> values,
        credential_nonce |-> nonce]

BlindInputs ==
    { BlindInput(fault, revocable, values, nonce) :
        fault \in KeyProofFaults, revocable \in BOOLEAN,
        values \in BlindValues, nonce \in Nonces }

\* nothing is being blinded while the builder or a signature is used
BlindIdle ==
    /\ blind_input = BlindInput("none", FALSE, mocks_credential_values(35), 0)
    /\ blind_seed = 0
    /\ blinded = None
    /\ blind_result = [ok |-> TRUE, msg |-> ""]
    /\ blind_draws = 0
    /\ blind_calls = 0

\* no signature is being processed while the builder is used
SignatureIdle ==
    /\ credential_signature = Issuance(5, 0, "none", "none").credential_signature
    /\ issuance = Issuance(5, 0, "none", "none")
    /\ processed = 0
    /\ process_result = [ok |-> TRUE, msg |-> ""]
    /\ evaluated = <<>>

InitBuilder ==
    /\ SignatureIdle
    /\ BlindIdle
    /\ init_proofs = new_proof_builder.init_proofs
    /\ c_list = new_proof_builder.c_list
    /\ tau_list = new_proof_builder.tau_list
    /\ op = "new_proof_builder"
    /\ result = [ok |-> TRUE, msg |-> ""]
    /\ draws = 0
    /\ proof = None
    /\ finalize_nonce = 0
    /\ log = <<>>

\* the init proofs each of the inputs makes
InitProofsOf ==
    [in \in AddInputs |->
        sub_proof_init_proofs(in.sub_proof_request, in.credential_schema,
                              in.credential_signature.p_credential,
                              in.credential_signature.r_credential, in.credential_values,
                              in.credential_pub_key, in.rev_reg, in.witness, in.seed)]

\* add_sub_proof_request applied to the builder of the current state
Call(key_id, in) ==
    add_sub_proof_request_to(ProofBuilder, key_id, in.sub_proof_request,
                             in.credential_schema, in.credential_values, InitProofsOf[in])

\* the states in which the model applies add_sub_proof_request
CallEnabled == Len(log) < MaxCalls

AddSubProofRequest ==
    /\ CallEnabled
    /\ \E key_id \in KeyIds, in \in AddInputs :
          Let(Call(key_id, in), LAMBDA out :
             /\ init_proofs' = out.self.init_proofs
             /\ c_list' = out.self.c_list
             /\ tau_list' = out.self.tau_list
             /\ result' = [ok |-> out.res.ok, msg |-> out.res.msg]
             /\ draws' = out.res.next
             /\ log' = IF out.res.ok
                       THEN Append(log, [key_id |-> key_id, ok |-> TRUE,
                                         init_proof |-> out.init_proof])
                       ELSE IF out.self.c_list # c_list \/ out.self.tau_list # tau_list
                       THEN Append(log, [key_id |-> 0, ok |-> FALSE, init_proof |-> None])
                       ELSE log)
    /\ op' = "add_sub_proof_request"
    /\ proof' = None
    /\ finalize_nonce' = 0
    /\ UNCHANGED signature_vars
    /\ UNCHANGED blind_vars

\* a finalize that takes the builder by value: nothing is left of it
Finalize_consuming ==
    /\ \E nonce \in Nonces :
          Let(finalize(ProofBuilder, nonce), LAMBDA out :
             /\ proof' = IF out.ok THEN Some(out.val) ELSE None
             /\ result' = [ok |-> out.ok, msg |-> out.msg]
             /\ finalize_nonce' = nonce)
    /\ op' = "finalize"
    /\ draws' = 0
    /\ init_proofs' = new_proof_builder.init_proofs
    /\ c_list' = new_proof_builder.c_list
    /\ tau_list' = new_proof_builder.tau_list
    /\ UNCHANGED log
    /\ UNCHANGED signature_vars
    /\ UNCHANGED blind_vars

\* a finalize that samples: a fresh number goes into the challenge
Finalize_sampling ==
    /\ \E nonce \in Nonces, seed \in Seeds :
          Let(finalize(ProofBuilder, nonce + bn_rand(seed, 0)), LAMBDA out :
             /\ proof' = IF out.ok THEN Some(out.val) ELSE None
             /\ result' = [ok |-> out.ok, msg |-> out.msg]
             /\ finalize_nonce' = nonce)
    /\ op' = "finalize"
    /\ draws' = 1
    /\ UNCHANGED <<init_proofs, c_list, tau_list, log>>
    /\ UNCHANGED signature_vars
    /\ UNCHANGED blind_vars

Finalize ==
    /\ \E nonce \in Nonces :
          Let(finalize(ProofBuilder, nonce), LAMBDA out :
             /\ proof' = IF out.ok THEN Some(out.val) ELSE None
             /\ result' = [ok |-> out.ok, msg |-> out.msg]
             /\ finalize_nonce' = nonce)
    /\ op' = "finalize"
    /\ draws' = 0
    /\ UNCHANGED <<init_proofs, c_list, tau_list, log>>
    /\ UNCHANGED signature_vars
    /\ UNCHANGED blind_vars

Next == AddSubProofRequest \/ Finalize

Spec == InitBuilder /\ [][Next]_vars

(***************************************************************************)
(* Processing an issued credential signature                               *)
(***************************************************************************)
InitSignature ==
    /\ BlindIdle
    /\ issuance \in Issuances
    /\ credential_signature = issuance.credential_signature
    /\ processed = 0
    /\ process_result = [ok |-> TRUE, msg |-> ""]
    /\ evaluated = <<>>
    /\ init_proofs = new_proof_builder.init_proofs
    /\ c_list = new_proof_builder.c_list
    /\ tau_list = new_proof_builder.tau_list
    /\ op = "new_proof_builder"
    /\ result = [ok |-> TRUE, msg |-> ""]
    /\ draws = 0
    /\ proof = None
    /\ finalize_nonce = 0
    /\ log = <<>>

ProcessCredentialSignature ==
    /\ processed < MaxProcess
    /\ LET out == process_credential_signature(
                     credential_signature, issuance.credential_values,
                     issuance.signature_correctness_proof,
                     issuance.credential_secrets_blinding_factors,
                     issuance.credential_pub_key, issuance.nonce,
                     issuance.rev_key_pub, issuance.rev_reg, issuance.witness)
       IN /\ credential_signature' = out.credential_signature
          /\ process_result' = [ok |-> out.res.ok, msg |-> out.res.msg]
          /\ evaluated' = out.evaluated
    /\ processed' = processed + 1
    /\ UNCHANGED issuance
    /\ UNCHANGED builder_vars
    /\ UNCHANGED blind_vars

NextSignature == ProcessCredentialSignature

SpecSignature == InitSignature /\ [][NextSignature]_vars

(***************************************************************************)
(* Blinding the credential secrets                                         *)
(***************************************************************************)
InitBlind ==
    /\ blind_input \in BlindInputs
    /\ blind_seed = 0
    /\ blinded = None
    /\ blind_result = [ok |-> TRUE, msg |-> ""]
    /\ blind_draws = 0
    /\ blind_calls = 0
    /\ SignatureIdle
    /\ init_proofs = new_proof_builder.init_proofs
    /\ c_list = new_proof_builder.c_list
    /\ tau_list = new_proof_builder.tau_list
    /\ op = "new_proof_builder"
    /\ result = [ok |-> TRUE, msg |-> ""]
    /\ draws = 0
    /\ proof = None
    /\ finalize_nonce = 0
    /\ log = <<>>

BlindCredentialSecrets ==
    /\ blind_calls < MaxBlind
    /\ \E seed \in Seeds :
          LET out == blind_credential_secrets(
                        blind_input.credential_pub_key,
                        blind_input.credential_key_correctness_proof,
                        blind_input.credential_values,
                        blind_input.credential_nonce, seed)
          IN /\ blinded' = IF out.ok THEN Some(out.val) ELSE None
             /\ blind_result' = [ok |-> out.ok, msg |-> out.msg]
             /\ blind_draws' = out.next
             /\ blind_seed' = seed
    /\ blind_calls' = blind_calls + 1
    /\ UNCHANGED blind_input
    /\ UNCHANGED builder_vars
    /\ UNCHANGED signature_vars

NextBlind == BlindCredentialSecrets

SpecBlind == InitBlind /\ [][NextBlind]_vars

(***************************************************************************)
(* Properties of the proof builder                                         *)
(***************************************************************************)
IsPrefix(s, t) == Len(s) <= Len(t) /\ SubSeq(t, 1, Len(s)) = s

BuilderUnchanged ==
    /\ init_proofs' = init_proofs
    /\ c_list' = c_list
    /\ tau_list' = tau_list

\* C1: an add_sub_proof_request that returns an error leaves init_proofs,
\* c_list and tau_list exactly as they were before the call.
C1_FailedAddLeavesBuilderUnchanged ==
    [][(op' = "add_sub_proof_request" /\ ~result'.ok) => BuilderUnchanged]_vars

c_contribution(init_proof) ==
    (IF IsSome(init_proof.non_revoc_init_proof)
     THEN NonRevocInitProof_as_c_list(init_proof.non_revoc_init_proof[1])
     ELSE <<>>)
    \o PrimaryInitProof_as_c_list(init_proof.primary_init_proof)

tau_contribution(init_proof) ==
    (IF IsSome(init_proof.non_revoc_init_proof)
     THEN NonRevocInitProof_as_tau_list(init_proof.non_revoc_init_proof[1])
     ELSE <<>>)
    \o PrimaryInitProof_as_tau_list(init_proof.primary_init_proof)

AllCallsSucceeded == \A i \in DOMAIN log : log[i].ok

\* C3: after successful calls only, c_list and tau_list are the concatenation of
\* the calls' contributions in call order, whatever the key_ids, each call giving
\* its non-revocation values before its primary values; and no call removes or
\* reorders what the lists already held.
C3_ListsFollowCallOrder ==
    /\ [](AllCallsSucceeded =>
            /\ c_list = Flatten([i \in DOMAIN log |-> c_contribution(log[i].init_proof[1])])
            /\ tau_list = Flatten([i \in DOMAIN log |->
                                      tau_contribution(log[i].init_proof[1])]))
    /\ [][IsPrefix(c_list, c_list') /\ IsPrefix(tau_list, tau_list')]_vars

C3_Witness ==
    /\ Len(log) = 2
    /\ AllCallsSucceeded
    /\ log[1].key_id > log[2].key_id
    /\ IsSome(log[1].init_proof[1].non_revoc_init_proof)
    /\ Len(log[2].init_proof[1].primary_init_proof.ge_proofs) > 0

\* the Result of every call on a builder that holds nothing yet
OnFreshBuilder ==
    [key_id \in KeyIds, in \in AddInputs |->
        add_sub_proof_request(new_proof_builder, key_id, in.sub_proof_request,
                              in.credential_schema, in.credential_signature,
                              in.credential_values, in.credential_pub_key, in.rev_reg,
                              in.witness, in.seed).res]

\* C5: a call with a key_id the builder already holds raises no error on that
\* account (it returns what the same call returns on a new builder), and when it
\* succeeds init_proofs holds the same keys as before, the InitProof of this
\* call under key_id, and the other keys' entries unchanged.
C5_KeyReuseOverwrites ==
    CallEnabled =>
      \A key_id \in DOMAIN init_proofs, in \in AddInputs :
         Let(Call(key_id, in), LAMBDA out :
            /\ out.res = OnFreshBuilder[key_id, in]
            /\ out.res.ok =>
                 /\ DOMAIN out.self.init_proofs = DOMAIN init_proofs
                 /\ out.self.init_proofs[key_id] = out.init_proof[1]
                 /\ \A k \in DOMAIN init_proofs \ {key_id} :
                       out.self.init_proofs[k] = init_proofs[k])

C5_Witness ==
    /\ Len(log) = 2
    /\ AllCallsSucceeded
    /\ log[1].key_id = log[2].key_id
    /\ log[1].init_proof # log[2].init_proof
    /\ DOMAIN init_proofs = {log[2].key_id}
    /\ init_proofs[log[2].key_id] = log[2].init_proof[1]

\* the three conditions of the consistency check, read off the inputs
SchemaMismatch(in) ==
    in.credential_schema.attrs # DOMAIN in.credential_values.attrs_values
RevealedForeign(in) ==
    \E attr \in in.sub_proof_request.revealed_attrs :
       attr \notin DOMAIN in.credential_values.attrs_values
PredicateForeign(in) ==
    \E i \in DOMAIN in.sub_proof_request.predicates :
       in.sub_proof_request.predicates[i].attr_name
          \notin DOMAIN in.credential_values.attrs_values
Inconsistent(in) == SchemaMismatch(in) \/ RevealedForeign(in) \/ PredicateForeign(in)

\* some predicate of the request has attribute value < bound
PredicateViolated(in) ==
    \E i \in DOMAIN in.sub_proof_request.predicates :
       LET p == in.sub_proof_request.predicates[i]
       IN /\ p.attr_name \in DOMAIN in.credential_values.attrs_values
          /\ in.credential_values.attrs_values[p.attr_name].value < p.value

DeltaRepresentable(in) ==
    \A i \in DOMAIN in.sub_proof_request.predicates :
       LET p == in.sub_proof_request.predicates[i]
           a == in.credential_values.attrs_values[p.attr_name].value
       IN IF p.value < 0 THEN a <= I32_MAX + p.value ELSE a >= I32_MIN + p.value

PredicateOnRevealed(in) ==
    \E i \in DOMAIN in.sub_proof_request.predicates :
       in.sub_proof_request.predicates[i].attr_name \in in.sub_proof_request.revealed_attrs

C7_ConsistencyCheckFirst ==
    CallEnabled =>
      \A key_id \in KeyIds, in \in AddInputs :
         Inconsistent(in) =>
            Let(Call(key_id, in), LAMBDA out :
               /\ ~out.res.ok
               /\ out.res.msg =
                    IF SchemaMismatch(in)
                    THEN "Credential doesn't correspond to credential schema"
                    ELSE IF RevealedForeign(in)
                    THEN "Credential doesn't contain requested attribute"
                    ELSE "Credential doesn't contain attribute requested in predicate"
               /\ out.res.next = 0
               /\ out.self = ProofBuilder)

C7_Witness ==
    /\ op = "add_sub_proof_request"
    /\ ~result.ok
    /\ result.msg = "Credential doesn't contain requested attribute"
    /\ draws = 0
    /\ Len(c_list) > 0

\* C8: the challenge finalize computes is the hash of tau_list, then c_list,
\* then the nonce; every sub-proof it finalizes answers that one challenge; the
\* Proof carries it as c_hash and the builder's c_list as c_list.
C8_ChallengeIsHashOfTauCNonce ==
    (op = "finalize" /\ result.ok) =>
       LET c_h == get_hash_as_int(tau_list \o c_list \o <<finalize_nonce>>)
           p == proof[1]
       IN /\ p.aggregated_proof.c_hash = c_h
          /\ p.aggregated_proof.c_list = c_list
          /\ DOMAIN p.proofs = DOMAIN init_proofs
          /\ \A k \in DOMAIN init_proofs :
                LET init == init_proofs[k].primary_init_proof
                    fin == p.proofs[k].primary_proof
                IN /\ fin.eq_proof.e = c_h * init.eq_proof.e_prime + init.eq_proof.e_tilde
                   /\ fin.eq_proof.v = c_h * init.eq_proof.v_prime + init.eq_proof.v_tilde
                   /\ fin.eq_proof.m2 = c_h * init.eq_proof.m2 + init.eq_proof.m2_tilde
                   /\ \A i \in DOMAIN init.ge_proofs :
                         fin.ge_proofs[i].r["DELTA"] =
                            c_h * init.ge_proofs[i].r["DELTA"]
                            + init.ge_proofs[i].r_tilde["DELTA"]
                   /\ IsSome(init_proofs[k].non_revoc_init_proof) =>
                         LET nr == init_proofs[k].non_revoc_init_proof[1]
                         IN p.proofs[k].non_revoc_proof[1].x_list.rho =
                               (nr.tau_list_params.rho
                                + 7 * 7 - (c_h % 7) * nr.c_list_params.rho) % 7

C8_Witness ==
    /\ op = "finalize"
    /\ result.ok
    /\ Cardinality(DOMAIN init_proofs) = 2
    /\ \E k \in DOMAIN init_proofs : IsSome(init_proofs[k].non_revoc_init_proof)
    /\ \E k \in DOMAIN init_proofs :
          Len(init_proofs[k].primary_init_proof.ge_proofs) > 0
    /\ proof[1].aggregated_proof.c_hash # 0

\* C4: every Proof that finalize returns on a builder reached by successful
\* add_sub_proof_request calls is accepted by a verifier that recomputes the
\* tau values from the sub-proofs of Proof.proofs and hashes them with the
\* proof's c_list and the nonce, in whichever order it takes the sub-proofs.
C4_VerifierAcceptsEveryProof ==
    (op = "finalize" /\ result.ok /\ AllCallsSucceeded) =>
       \E order \in Orders(proof[1]) : Verifier_verify(proof[1], finalize_nonce, order)

(***************************************************************************)
(* Properties of process_credential_signature                              *)
(***************************************************************************)
RECURSIVE Product(_, _, _)
Product(f, S, n) ==
    IF S = {} THEN 1 % n
    ELSE LET x == CHOOSE y \in S : TRUE IN (f[x] * Product(f, S \ {x}, n)) % n

\* every attribute of the credential values has a generator in pk.r
GeneratorsKnown ==
    DOMAIN issuance.credential_values.attrs_values
       \subseteq DOMAIN issuance.credential_pub_key.p_key.r

\* A^e * S^v * Rctxt^m_2 * Prod R_i^a_i = Z (mod n), on the signature as the
\* call left it
SignatureEquation ==
    LET pk == issuance.credential_pub_key.p_key
        sig == credential_signature.p_credential
        attrs == issuance.credential_values.attrs_values
        powers == [k \in DOMAIN attrs |-> ModPow(pk.r[k], attrs[k].value, pk.n)]
    IN (ModPow(sig.a, sig.e, pk.n) * ModPow(pk.s, sig.v, pk.n)
        * ModPow(pk.rctxt, sig.m_2, pk.n) * Product(powers, DOMAIN attrs, pk.n)) % pk.n
       = pk.z % pk.n

\* H(Q, A, A^(c + se * e), nonce) = c with Q = A^e
SignatureHash ==
    LET pk == issuance.credential_pub_key.p_key
        sig == credential_signature.p_credential
        scp == issuance.signature_correctness_proof
    IN get_hash_as_int(<<ModPow(sig.a, sig.e, pk.n), sig.a,
                         ModPow(sig.a, scp.c + scp.se * sig.e, pk.n),
                         issuance.nonce>>) = scp.c

\* C9: process_credential_signature returns Ok only if, for the unblinded v,
\* A^e = Z (S^v Rctxt^m2 Prod R_i^a_i)^-1 mod n and the hash of (Q, A,
\* A^(c + se e), nonce) equals c; when either fails for credential values that
\* all have a generator, the call returns "Invalid Signature correctness proof".
C9_SignatureCorrectnessProofChecked ==
    processed > 0 =>
       /\ process_result.ok => (GeneratorsKnown /\ SignatureEquation /\ SignatureHash)
       /\ (GeneratorsKnown /\ ~(SignatureEquation /\ SignatureHash)) =>
             /\ ~process_result.ok
             /\ process_result.msg = "Invalid Signature correctness proof"

C9_Witness ==
    /\ processed = 1
    /\ process_result.ok
    /\ issuance.credential_secrets_blinding_factors.v_prime > 0
    /\ credential_signature.p_credential.v
          # issuance.credential_signature.p_credential.v
    /\ IsSome(credential_signature.r_credential)

Prime(e) == e > 1 /\ \A a, b \in 2..(e - 1) : a * b # e

\* C10: an accepted signature has a prime e; a signature whose e is not prime
\* is rejected with "Invalid Signature correctness proof" before the equation
\* for Q or the hash is evaluated.
C10_ExponentIsPrime ==
    processed > 0 =>
       /\ process_result.ok => Prime(credential_signature.p_credential.e)
       /\ ~Prime(credential_signature.p_credential.e) =>
             /\ ~process_result.ok
             /\ process_result.msg = "Invalid Signature correctness proof"
             /\ evaluated = <<"is_prime">>

C10_Witness ==
    /\ processed = 1
    /\ ~Prime(credential_signature.p_credential.e)
    /\ GeneratorsKnown
    /\ SignatureEquation
    /\ SignatureHash
    /\ ~process_result.ok
    /\ evaluated = <<"is_prime">>

(***************************************************************************)
(* The witness check of process_credential_signature                       *)
(***************************************************************************)
\* the six inputs the revocation part of the call needs
AllSixPresent ==
    /\ IsSome(issuance.credential_signature.r_credential)
    /\ IsSome(issuance.credential_secrets_blinding_factors.vr_prime)
    /\ IsSome(issuance.credential_pub_key.r_key)
    /\ IsSome(issuance.rev_key_pub)
    /\ IsSome(issuance.rev_reg)
    /\ IsSome(issuance.witness)

\* what the primary part of the call checks, on the signature as the call left it
PrimaryChecksHold ==
    /\ Prime(credential_signature.p_credential.e)
    /\ GeneratorsKnown
    /\ SignatureEquation
    /\ SignatureHash

\* e(g_i, accum) / e(g, omega) = z
WitnessZ(r_cred) ==
    (r_cred.witness_signature.g_i * issuance.rev_reg[1].accum
       + 7 * 7 - issuance.credential_pub_key.r_key[1].g * issuance.witness[1].omega) % 7
    = issuance.rev_key_pub[1].z % 7

\* e(pk + g_i, sigma_i) = e(g, g_dash)
WitnessGG(r_cred) ==
    LET rpk == issuance.credential_pub_key.r_key[1]
    IN ((rpk.pk + r_cred.g_i) * r_cred.witness_signature.sigma_i) % 7
       = (rpk.g * rpk.g_dash) % 7

\* e(sigma, y + c h_cap) = e(h0 + m2 h1 + vr'' h2 + g_i, h_cap)
WitnessH(r_cred) ==
    LET rpk == issuance.credential_pub_key.r_key[1]
    IN (r_cred.sigma * (rpk.y + rpk.h_cap * r_cred.c)) % 7
       = ((rpk.h0 + rpk.h1 * r_cred.m2 + rpk.h2 * r_cred.vr_prime_prime + r_cred.g_i)
          * rpk.h_cap) % 7

WitnessIdentities(r_cred) == WitnessZ(r_cred) /\ WitnessGG(r_cred) /\ WitnessH(r_cred)

\* the received non-revocation credential with vr'' + vr' mod q for vr''
UnblindedReceived ==
    LET received == issuance.credential_signature.r_credential[1]
        vr_prime == issuance.credential_secrets_blinding_factors.vr_prime[1]
    IN [received EXCEPT !.vr_prime_prime = (@ + vr_prime) % 7]

\* C11: with all six revocation inputs present, process_credential_signature
\* returns Ok only if the three pairing identities hold for the unblinded vr'';
\* when the primary checks pass and one of the three fails, the call returns
\* "Issuer is sending incorrect data".
C11_WitnessSignatureTested ==
    (processed > 0 /\ AllSixPresent) =>
       /\ process_result.ok => WitnessIdentities(credential_signature.r_credential[1])
       /\ (processed = 1 /\ process_result.ok) => WitnessIdentities(UnblindedReceived)
       /\ (processed = 1 /\ PrimaryChecksHold /\ ~WitnessIdentities(UnblindedReceived)) =>
             /\ ~process_result.ok
             /\ process_result.msg = "Issuer is sending incorrect data"

C11_Witness ==
    /\ processed = 1
    /\ AllSixPresent
    /\ PrimaryChecksHold
    /\ WitnessZ(UnblindedReceived)
    /\ WitnessGG(UnblindedReceived)
    /\ ~WitnessH(UnblindedReceived)
    /\ WitnessH([UnblindedReceived EXCEPT !.sigma = 4])
    /\ ~process_result.ok
    /\ process_result.msg = "Issuer is sending incorrect data"

(***************************************************************************)
(* Unblinding the primary credential                                       *)
(***************************************************************************)
\* C12: every call of process_credential_signature sets v to the integer sum
\* of the v it was given and v_prime, and leaves a, e and m_2 as they were.
C12_PrimaryUnblinded ==
    [][processed' = processed + 1 =>
         /\ credential_signature'.p_credential.v
               = credential_signature.p_credential.v
                 + issuance.credential_secrets_blinding_factors.v_prime
         /\ credential_signature'.p_credential.a = credential_signature.p_credential.a
         /\ credential_signature'.p_credential.e = credential_signature.p_credential.e
         /\ credential_signature'.p_credential.m_2 = credential_signature.p_credential.m_2
         /\ DOMAIN credential_signature'.p_credential
               = DOMAIN credential_signature.p_credential]_vars

\* two calls have added v_prime twice, up to the order of the group
C12_Witness ==
    /\ processed = 2
    /\ issuance.credential_secrets_blinding_factors.v_prime = 2
    /\ credential_signature.p_credential.v
          = issuance.credential_signature.p_credential.v + 4
    /\ credential_signature.p_credential.v = 6
    /\ credential_signature.p_credential.a = issuance.credential_signature.p_credential.a

(***************************************************************************)
(* The revocation part of process_credential_signature is optional         *)
(***************************************************************************)
WitnessCheckRan == \E i \in DOMAIN evaluated : evaluated[i] = "witness_signature"

\* C20: a call with one of the six revocation inputs absent leaves r_credential
\* (vr'' included) as it was, does not run the witness check and returns what
\* the primary checks alone give; a call that changes vr'' or runs the witness
\* check has all six, and with all six and the primary checks passed vr'' is
\* unblinded and the witness check runs.
C20_RevocationPartNeedsAllSix ==
    [][processed' = processed + 1 =>
         /\ ~AllSixPresent =>
               /\ credential_signature'.r_credential = credential_signature.r_credential
               /\ ~WitnessCheckRan'
               /\ process_result'.ok = PrimaryChecksHold'
               /\ process_result'.msg # "Issuer is sending incorrect data"
         /\ (AllSixPresent /\ PrimaryChecksHold') =>
               /\ WitnessCheckRan'
               /\ credential_signature'.r_credential[1].vr_prime_prime
                     = (credential_signature.r_credential[1].vr_prime_prime
                        + issuance.credential_secrets_blinding_factors.vr_prime[1]) % 7]_vars

\* accepted on the primary checks with the credential and vr_prime there and
\* another of the six missing
C20_Witness ==
    /\ processed = 1
    /\ process_result.ok
    /\ PrimaryChecksHold
    /\ IsSome(issuance.credential_signature.r_credential)
    /\ IsSome(issuance.credential_secrets_blinding_factors.vr_prime)
    /\ ~AllSixPresent
    /\ credential_signature.r_credential = issuance.credential_signature.r_credential
    /\ ~WitnessCheckRan

StoredKeyOrders ==
    { f \in [1..Cardinality(DOMAIN init_proofs) -> DOMAIN init_proofs] :
        \A i, j \in DOMAIN f : f[i] = f[j] => i = j }

\* C17: in every reachable builder state c_list and tau_list are made of the
\* contributions of the init proofs stored in init_proofs, one per stored entry
\* and nothing else.
C17_ListsAreTheStoredContributions ==
    \E f \in StoredKeyOrders :
       /\ c_list = Flatten([i \in DOMAIN f |-> c_contribution(init_proofs[f[i]])])
       /\ tau_list = Flatten([i \in DOMAIN f |-> tau_contribution(init_proofs[f[i]])])

(***************************************************************************)
(* The order of the lists and the order of the sub-proofs                  *)
(***************************************************************************)
\* every call so far succeeded and no key_id was used twice
DistinctKeysAdded ==
    /\ AllCallsSucceeded
    /\ \A i, j \in DOMAIN log : log[i].key_id = log[j].key_id => i = j

\* C18: after calls under pairwise distinct key_ids, in any order, c_list and
\* tau_list hold the calls' contributions in the order in which finalize walks
\* init_proofs, which is the order of the sub-proofs in Proof.proofs.
C18_ListsFollowIterationOrder ==
    DistinctKeysAdded =>
       LET keys == BTreeMap_keys(init_proofs)
       IN /\ c_list = Flatten([i \in DOMAIN keys |-> c_contribution(init_proofs[keys[i]])])
          /\ tau_list = Flatten([i \in DOMAIN keys |->
                                    tau_contribution(init_proofs[keys[i]])])

(***************************************************************************)
(* The non-revocation sub-proof is optional                                *)
(***************************************************************************)
AllFourPresent(in) ==
    /\ IsSome(in.credential_signature.r_credential)
    /\ IsSome(in.rev_reg)
    /\ IsSome(in.credential_pub_key.r_key)
    /\ IsSome(in.witness)

\* the same arguments with no revocation input at all
WithoutRevocation(in) ==
    AddInput(in.credential_values, in.credential_schema, in.sub_proof_request,
             NoRevocation, in.seed)

\* C19: a successful add_sub_proof_request stores a non-revocation init proof
\* exactly when r_credential, rev_reg, r_key and witness are all present, and
\* then its values go to the lists before the primary ones; with one of the four
\* absent the call does what it does with none of them: it succeeds, stores None
\* and appends the primary contribution only; and a Proof has a non_revoc_proof
\* under a key_id exactly when the stored InitProof has a non-revocation part.
C19_NonRevocationNeedsAllFour ==
    /\ CallEnabled =>
         \A key_id \in KeyIds, in \in AddInputs :
            Let(Call(key_id, in), LAMBDA out :
               /\ out.res.ok =>
                    /\ IsSome(out.self.init_proofs[key_id].non_revoc_init_proof)
                          = AllFourPresent(in)
                    /\ AllFourPresent(in) =>
                          /\ out.self.c_list
                                = c_list
                                  \o NonRevocInitProof_as_c_list(
                                        out.self.init_proofs[key_id].non_revoc_init_proof[1])
                                  \o PrimaryInitProof_as_c_list(
                                        out.self.init_proofs[key_id].primary_init_proof)
                          /\ Len(NonRevocInitProof_as_c_list(
                                    out.self.init_proofs[key_id].non_revoc_init_proof[1])) > 0
               /\ ~AllFourPresent(in) =>
                    /\ WithoutRevocation(in) \in AddInputs
                    /\ out.res.ok = OnFreshBuilder[key_id, WithoutRevocation(in)].ok
                    /\ out.res.ok =>
                          /\ out.self.init_proofs[key_id].non_revoc_init_proof = None
                          /\ out.self.c_list
                                = c_list \o PrimaryInitProof_as_c_list(
                                               out.self.init_proofs[key_id].primary_init_proof)
                          /\ out.self.tau_list
                                = tau_list \o PrimaryInitProof_as_tau_list(
                                                 out.self.init_proofs[key_id].primary_init_proof))
    /\ (op = "finalize" /\ result.ok) =>
          /\ DOMAIN proof[1].proofs = DOMAIN init_proofs
          /\ \A k \in DOMAIN init_proofs :
                IsSome(proof[1].proofs[k].non_revoc_proof)
                   = IsSome(init_proofs[k].non_revoc_init_proof)

\* a Proof over one sub-proof with a non-revocation part and one without
C19_Witness ==
    /\ op = "finalize"
    /\ result.ok
    /\ Len(log) = 2
    /\ AllCallsSucceeded
    /\ \E k \in DOMAIN init_proofs : IsSome(proof[1].proofs[k].non_revoc_proof)
    /\ \E k \in DOMAIN init_proofs :
          /\ proof[1].proofs[k].non_revoc_proof = None
          /\ init_proofs[k].non_revoc_init_proof = None

(***************************************************************************)
(* Properties of blind_credential_secrets                                  *)
(***************************************************************************)
\* the attributes of the credential values that carry a blinding factor
BlindedAttributes ==
    { k \in DOMAIN blind_input.credential_values.attrs_values :
        blind_input.credential_values.attrs_values[k].blinding_factor # None }

\* C13: in the output of a successful call U = S^v' * Prod R_i^a_i mod n over the
\* attributes that carry a blinding factor and no others, committed_attributes
\* has those attributes as its keys, and C_i = S^b_i * Z^a_i mod n.
C13_PrimaryBlinding ==
    (blind_calls > 0 /\ blind_result.ok) =>
       LET pk == blind_input.credential_pub_key.p_key
           attrs == blind_input.credential_values.attrs_values
           secrets == blinded[1].blinded_credential_secrets
           v_prime == blinded[1].credential_secrets_blinding_factors.v_prime
           powers == [k \in BlindedAttributes |-> ModPow(pk.r[k], attrs[k].value, pk.n)]
       IN /\ secrets.u
               = (ModPow(pk.s, v_prime, pk.n) * Product(powers, BlindedAttributes, pk.n))
                 % pk.n
          /\ DOMAIN secrets.committed_attributes = BlindedAttributes
          /\ \A k \in BlindedAttributes :
                secrets.committed_attributes[k]
                   = (ModPow(pk.s, attrs[k].blinding_factor[1], pk.n)
                      * ModPow(pk.z, attrs[k].value, pk.n)) % pk.n

\* one attribute blinded, one not, and the one left out would have changed U
C13_Witness ==
    /\ blind_calls > 0
    /\ blind_result.ok
    /\ BlindedAttributes = {"name"}
    /\ blinded[1].credential_secrets_blinding_factors.v_prime > 0
    /\ "age" \in DOMAIN blind_input.credential_values.attrs_values
    /\ ModPow(blind_input.credential_pub_key.p_key.r["age"],
              blind_input.credential_values.attrs_values["age"].value, 35) # 1
    /\ DOMAIN blinded[1].blinded_credential_secrets.committed_attributes = {"name"}

\* xr_cap has no exponent for some generator of pk.r
XrCapLacksKey ==
    \E k \in DOMAIN blind_input.credential_pub_key.p_key.r :
       k \notin DOMAIN blind_input.credential_key_correctness_proof.xr_cap

\* the hash of Z, the R_i in name order, Z^-c S^xz_cap and the R_i^-c S^xr_cap_i
\* differs from c
KeyProofHashDiffers ==
    LET pk == blind_input.credential_pub_key.p_key
        kcp == blind_input.credential_key_correctness_proof
        names == <<"age", "email", "name">>
        cap(g, x) == (ModPow(inverse(g, pk.n), kcp.c, pk.n) * ModPow(pk.s, x, pk.n)) % pk.n
    IN get_hash_as_int(<<pk.z, pk.r["age"], pk.r["email"], pk.r["name"],
                         cap(pk.z, kcp.xz_cap),
                         cap(pk.r["age"], kcp.xr_cap["age"]),
                         cap(pk.r["email"], kcp.xr_cap["email"]),
                         cap(pk.r["name"], kcp.xr_cap["name"])>>) # kcp.c

\* an attribute that carries a blinding factor has no generator in pk.r
BlindedAttributeUnknown ==
    \E k \in BlindedAttributes : k \notin DOMAIN blind_input.credential_pub_key.p_key.r

\* C14: when xr_cap lacks an exponent for a key of pk.r, or the recomputed hash
\* differs from c, blind_credential_secrets returns an error before it has
\* drawn a random number and gives nothing back; when an attribute that carries
\* a blinding factor has no generator in pk.r it returns an error and gives
\* nothing back; and a call that returns Ok has met none of the three.
C14_KeyCorrectnessProofCheckedFirst ==
    blind_calls > 0 =>
       /\ XrCapLacksKey =>
             /\ ~blind_result.ok
             /\ blinded = None
             /\ blind_draws = 0
       /\ (~XrCapLacksKey /\ KeyProofHashDiffers) =>
             /\ ~blind_result.ok
             /\ blind_result.msg = "Invalid Credential key correctness proof"
             /\ blinded = None
             /\ blind_draws = 0
       /\ BlindedAttributeUnknown =>
             /\ ~blind_result.ok
             /\ blinded = None
       /\ blind_result.ok =>
             /\ blinded # None
             /\ ~XrCapLacksKey
             /\ ~KeyProofHashDiffers
             /\ ~BlindedAttributeUnknown

\* the proof of a key whose issuer hashed the generators in another order is
\* rejected before anything is drawn
C14_Witness ==
    /\ blind_calls > 0
    /\ ~XrCapLacksKey
    /\ KeyProofHashDiffers
    /\ blind_input.credential_key_correctness_proof
          = mocks_credential_key_correctness_proof(<<"name", "email", "age">>)
    /\ ~BlindedAttributeUnknown
    /\ ~blind_result.ok
    /\ blind_result.msg = "Invalid Credential key correctness proof"
    /\ blinded = None
    /\ blind_draws = 0

\* C15: in the result of a successful call ur and vr_prime are both present
\* when credential_pub_key.r_key is, and then ur = h2 * vr_prime, and both are
\* None when it is not.
C15_RevocationBlinding ==
    (blind_calls > 0 /\ blind_result.ok) =>
       LET r_key == blind_input.credential_pub_key.r_key
           ur == blinded[1].blinded_credential_secrets.ur
           vr_prime == blinded[1].credential_secrets_blinding_factors.vr_prime
       IN IF r_key # None
          THEN /\ ur # None
               /\ vr_prime # None
               /\ ur[1] = (r_key[1].h2 * vr_prime[1]) % 7
          ELSE ur = None /\ vr_prime = None

C15_Witness ==
    /\ blind_calls > 0
    /\ blind_result.ok
    /\ blind_input.credential_pub_key.r_key # None
    /\ blinded[1].credential_secrets_blinding_factors.vr_prime # None
    /\ blinded[1].credential_secrets_blinding_factors.vr_prime[1] > 1
    /\ blinded[1].blinded_credential_secrets.ur
          = Some((5 * blinded[1].credential_secrets_blinding_factors.vr_prime[1]) % 7)

(***************************************************************************)
(* What a failing add_sub_proof_request leaves behind                      *)
(***************************************************************************)
\* the call initialises a non-revocation sub-proof: the consistency check
\* passes and the four revocation inputs are there
InitialisesNonRevocation(in) == ~Inconsistent(in) /\ AllFourPresent(in)

\* C21: a failing add_sub_proof_request leaves init_proofs as it was, and when
\* the call initialises no non-revocation sub-proof it leaves c_list and
\* tau_list as they were too.
C21_FailedAddKeepsInitProofs ==
    CallEnabled =>
       \A key_id \in KeyIds, in \in AddInputs :
          Let(Call(key_id, in), LAMBDA out :
             ~out.res.ok =>
                /\ out.self.init_proofs = init_proofs
                /\ ~InitialisesNonRevocation(in) =>
                      /\ out.self.c_list = c_list
                      /\ out.self.tau_list = tau_list)

\* a predicate fails on a builder that holds an entry, and nothing has changed
C21_Witness ==
    /\ op = "add_sub_proof_request"
    /\ ~result.ok
    /\ result.msg = "Predicate is not satisfied"
    /\ Len(log) = 1
    /\ log[1].ok
    /\ DOMAIN init_proofs = {log[1].key_id}
    /\ init_proofs[log[1].key_id] = log[1].init_proof[1]
    /\ c_list = c_contribution(log[1].init_proof[1])
    /\ tau_list = tau_contribution(log[1].init_proof[1])

(***************************************************************************)
(* A predicate on a revealed attribute                                     *)
(***************************************************************************)
\* C22: a request that passes the consistency check and has a predicate on an
\* attribute it also reveals makes add_sub_proof_request fail; when every
\* predicate is satisfied the error is the missing m_tilde of that attribute.
C22_PredicateOnRevealedFails ==
    CallEnabled =>
       \A key_id \in KeyIds, in \in AddInputs :
          (~Inconsistent(in) /\ PredicateOnRevealed(in)) =>
             Let(Call(key_id, in).res, LAMBDA res :
                /\ ~res.ok
                /\ (~PredicateViolated(in) /\ DeltaRepresentable(in)) =>
                      res.msg = "Value by key not found in eq_proof.mtilde")

\* the call has failed although age 35 >= 18 and the request is consistent
C22_Witness ==
    /\ op = "add_sub_proof_request"
    /\ ~result.ok
    /\ result.msg = "Value by key not found in eq_proof.mtilde"
    /\ \E in \in AddInputs :
          /\ ~Inconsistent(in)
          /\ PredicateOnRevealed(in)
          /\ ~PredicateViolated(in)
          /\ ~AllFourPresent(in)
    /\ c_list = <<>>
    /\ init_proofs = new_proof_builder.init_proofs

(***************************************************************************)
(* finalize finds every key it looks up                                    *)
(***************************************************************************)
\* the keys _finalize_eq_proof and _finalize_ge_proof look up in one stored
\* init proof
StoredInitProofComplete(stored) ==
    LET revealed == stored.sub_proof_request.revealed_attrs
        unrevealed == stored.credential_schema.attrs \ revealed
        ge == stored.primary_init_proof.ge_proofs
    IN /\ unrevealed \subseteq DOMAIN stored.primary_init_proof.eq_proof.m_tilde
       /\ unrevealed \subseteq DOMAIN stored.credential_values.attrs_values
       /\ revealed \subseteq DOMAIN stored.credential_values.attrs_values
       /\ \A i \in DOMAIN ge :
             /\ ge[i].predicate.attr_name \in unrevealed
             /\ IterKeys \subseteq DOMAIN ge[i].u
             /\ IterKeys \subseteq DOMAIN ge[i].u_tilde
             /\ IterKeys \cup {"DELTA"} \subseteq DOMAIN ge[i].r
             /\ IterKeys \cup {"DELTA"} \subseteq DOMAIN ge[i].r_tilde

\* C23: every init proof stored by a successful add_sub_proof_request has
\* all the keys finalize looks up (the predicate attributes among the
\* unrevealed ones, "0".."3" in u, u_tilde, r, r_tilde, "DELTA" in r and
\* r_tilde, every schema attribute among the credential values), and no
\* finalize step, which the model takes from every reachable builder and
\* with every nonce, returns an error
C23_FinalizeFindsEveryKey ==
    /\ \A k \in DOMAIN init_proofs : StoredInitProofComplete(init_proofs[k])
    /\ op = "finalize" => result.ok

C23_Witness ==
    /\ op = "finalize"
    /\ result.ok
    /\ \E k \in DOMAIN init_proofs :
          Len(init_proofs[k].primary_init_proof.ge_proofs) = 2
    /\ \E k \in DOMAIN init_proofs :
          /\ init_proofs[k].sub_proof_request.revealed_attrs # {}
          /\ Len(init_proofs[k].primary_init_proof.ge_proofs) = 1
          /\ Len(proof[1].proofs[k].primary_proof.ge_proofs) = 1

(***************************************************************************)
(* The signature is updated before it is verified                          *)
(***************************************************************************)
\* C24: a process_credential_signature step that returns an error has
\* replaced p_credential.v by v + v_prime; when the error comes from the
\* witness check it has also replaced r_credential.vr_prime_prime by
\* vr'' + vr' (mod the group order), and when it comes from the signature
\* correctness check r_credential is as it was. The step reads the signature
\* the previous step left, so a repeated call adds the factors again.
C24_SignatureUpdatedBeforeVerification ==
    [][(processed' = processed + 1 /\ ~process_result'.ok) =>
         /\ credential_signature'.p_credential.v
               = credential_signature.p_credential.v
                 + issuance.credential_secrets_blinding_factors.v_prime
         /\ WitnessCheckRan' =>
               credential_signature'.r_credential[1].vr_prime_prime
                  = (credential_signature.r_credential[1].vr_prime_prime
                     + issuance.credential_secrets_blinding_factors.vr_prime[1]) % 7
         /\ ~WitnessCheckRan' =>
               credential_signature'.r_credential = credential_signature.r_credential]_vars

\* the first call failed in the witness check, the second one in the signature
\* correctness check: v_prime was added twice and vr_prime once
C24_Witness ==
    /\ processed = 2
    /\ ~process_result.ok
    /\ ~WitnessCheckRan
    /\ AllSixPresent
    /\ issuance.credential_secrets_blinding_factors.v_prime > 0
    /\ credential_signature.p_credential.v
          = issuance.credential_signature.p_credential.v
            + 2 * issuance.credential_secrets_blinding_factors.v_prime
    /\ credential_signature.r_credential[1].vr_prime_prime
          = (issuance.credential_signature.r_credential[1].vr_prime_prime
             + issuance.credential_secrets_blinding_factors.vr_prime[1]) % 7
    /\ credential_signature.r_credential # issuance.credential_signature.r_credential

(***************************************************************************)
(* What an equality proof reveals                                          *)
(***************************************************************************)
\* C25: in every equality proof of a Proof that finalize returned, the keys
\* of m are schema.attrs minus the request's revealed_attrs and the keys of
\* revealed_attrs are the request's revealed_attrs: the two key sets are
\* disjoint and their union is schema.attrs; every revealed entry is the
\* credential's value of that attribute and no unrevealed attribute has an
\* entry in revealed_attrs.
C25_RevealedAndHiddenPartitionSchema ==
    (op = "finalize" /\ result.ok) =>
       \A k \in DOMAIN init_proofs :
          LET stored == init_proofs[k]
              eq_proof == proof[1].proofs[k].primary_proof.eq_proof
              revealed == stored.sub_proof_request.revealed_attrs
              unrevealed == stored.credential_schema.attrs \ revealed
          IN /\ DOMAIN eq_proof.m = unrevealed
             /\ DOMAIN eq_proof.revealed_attrs = revealed
             /\ DOMAIN eq_proof.m \cap DOMAIN eq_proof.revealed_attrs = {}
             /\ DOMAIN eq_proof.m \cup DOMAIN eq_proof.revealed_attrs
                   = stored.credential_schema.attrs
             /\ \A attr \in revealed :
                   eq_proof.revealed_attrs[attr]
                      = stored.credential_values.attrs_values[attr].value
             /\ \A attr \in unrevealed : attr \notin DOMAIN eq_proof.revealed_attrs

\* a Proof with one sub-proof revealing an attribute and hiding another, and
\* one revealing nothing
C25_Witness ==
    /\ op = "finalize"
    /\ result.ok
    /\ \E k \in DOMAIN init_proofs :
          LET eq_proof == proof[1].proofs[k].primary_proof.eq_proof
          IN /\ DOMAIN eq_proof.revealed_attrs = {"name"}
             /\ DOMAIN eq_proof.m = {"age"}
             /\ eq_proof.revealed_attrs["name"]
                   = init_proofs[k].credential_values.attrs_values["name"].value
    /\ \E k \in DOMAIN init_proofs :
          LET eq_proof == proof[1].proofs[k].primary_proof.eq_proof
          IN /\ DOMAIN eq_proof.revealed_attrs = {}
             /\ DOMAIN eq_proof.m = {"age", "name"}

(***************************************************************************)
(* One m_tilde per attribute, shared by the equality and range proofs      *)
(***************************************************************************)
\* C26: in every Proof that finalize returned, the mj of each range proof is
\* the m entry of the same credential's equality proof for the predicate's
\* attribute; that entry is challenge * value + m_tilde of the attribute as
\* stored by the equality init proof, and the range init proof's tau_list
\* is calc_tge of that same m_tilde.
C26_RangeProofSharesMTilde ==
    (op = "finalize" /\ result.ok) =>
       \A k \in DOMAIN init_proofs :
          LET stored == init_proofs[k]
              init == stored.primary_init_proof
              fin == proof[1].proofs[k].primary_proof
              c_h == proof[1].aggregated_proof.c_hash
          IN \A i \in DOMAIN init.ge_proofs :
                LET ge == init.ge_proofs[i]
                    attr == ge.predicate.attr_name
                IN /\ fin.ge_proofs[i].mj = fin.eq_proof.m[attr]
                   /\ fin.eq_proof.m[attr]
                         = c_h * stored.credential_values.attrs_values[attr].value
                           + init.eq_proof.m_tilde[attr]
                   /\ ge.tau_list
                         = calc_tge(mocks_credential_primary_public_key, ge.u_tilde,
                                    ge.r_tilde, init.eq_proof.m_tilde[attr],
                                    ge.alpha_tilde, ge.t)

\* a Proof with two range proofs on different attributes of one credential
C26_Witness ==
    /\ op = "finalize"
    /\ result.ok
    /\ \E k \in DOMAIN init_proofs :
          LET fin == proof[1].proofs[k].primary_proof
          IN /\ Len(fin.ge_proofs) = 2
             /\ fin.ge_proofs[1].predicate.attr_name = "age"
             /\ fin.ge_proofs[2].predicate.attr_name = "name"
             /\ fin.ge_proofs[1].mj = fin.eq_proof.m["age"]
             /\ fin.ge_proofs[2].mj = fin.eq_proof.m["name"]
             /\ proof[1].aggregated_proof.c_hash # 0

(***************************************************************************)
(* m2_tilde links the equality proof to the non-revocation proof           *)
(***************************************************************************)
\* C27: a successful add_sub_proof_request that initialises a non-revocation
\* sub-proof stores an equality init proof whose m2_tilde is the m2 of the
\* non-revocation tau_list_params as a bignum; one that initialises none
\* stores the first number the call draws. Either way the stored m2 is the
\* credential's m_2, and every finalized equality proof has
\* m2 = m2_tilde + challenge * m2 of its init proof.
C27_M2TildeComesFromNonRevocation ==
    /\ CallEnabled =>
          \A key_id \in KeyIds, in \in AddInputs :
             Let(Call(key_id, in), LAMBDA out :
                out.res.ok =>
                   LET stored == out.init_proof[1]
                       eq_proof == stored.primary_init_proof.eq_proof
                   IN /\ eq_proof.m2 = in.credential_signature.p_credential.m_2
                      /\ IsSome(stored.non_revoc_init_proof) = AllFourPresent(in)
                      /\ AllFourPresent(in) =>
                            eq_proof.m2_tilde
                               = group_element_to_bignum(
                                    stored.non_revoc_init_proof[1].tau_list_params.m2)
                      /\ ~AllFourPresent(in) => eq_proof.m2_tilde = bn_rand(in.seed, 0))
    /\ (op = "finalize" /\ result.ok) =>
          \A k \in DOMAIN init_proofs :
             LET eq_proof == init_proofs[k].primary_init_proof.eq_proof
             IN proof[1].proofs[k].primary_proof.eq_proof.m2
                   = eq_proof.m2_tilde + proof[1].aggregated_proof.c_hash * eq_proof.m2

\* a Proof with one sub-proof whose m2_tilde is the non-revocation one and one
\* whose m2_tilde was sampled
C27_Witness ==
    /\ op = "finalize"
    /\ result.ok
    /\ proof[1].aggregated_proof.c_hash # 0
    /\ \E k \in DOMAIN init_proofs :
          /\ IsSome(init_proofs[k].non_revoc_init_proof)
          /\ init_proofs[k].primary_init_proof.eq_proof.m2_tilde
                = group_element_to_bignum(
                     init_proofs[k].non_revoc_init_proof[1].tau_list_params.m2)
          /\ init_proofs[k].primary_init_proof.eq_proof.m2 # 0
    /\ \E k \in DOMAIN init_proofs :
          /\ init_proofs[k].non_revoc_init_proof = None
          /\ init_proofs[k].primary_init_proof.eq_proof.m2_tilde \in {0, 1}

(***************************************************************************)
(* The difference of an attribute value and a predicate bound              *)
(***************************************************************************)
\* C28: for a request that passes the consistency check and has its
\* predicates on unrevealed attributes, with every value and bound an i32,
\* add_sub_proof_request fails with "Predicate is not satisfied" if and only
\* if some predicate has attribute value < bound, whether or not
\* value - bound fits an i32; and the u of every range init proof it stores
\* are four numbers whose squares add up to value - bound.
C28_DeltaIsExact ==
    CallEnabled =>
       \A key_id \in KeyIds, in \in AddInputs :
          (~Inconsistent(in) /\ ~PredicateOnRevealed(in)) =>
             Let(Call(key_id, in), LAMBDA out :
                /\ (~out.res.ok /\ out.res.msg = "Predicate is not satisfied")
                      <=> PredicateViolated(in)
                /\ ~PredicateViolated(in) => out.res.ok
                /\ (out.res.ok /\ DeltaRepresentable(in)) =>
                      LET ge == out.init_proof[1].primary_init_proof.ge_proofs
                      IN \A i \in DOMAIN ge :
                            ge[i].u["0"] * ge[i].u["0"] + ge[i].u["1"] * ge[i].u["1"]
                            + ge[i].u["2"] * ge[i].u["2"] + ge[i].u["3"] * ge[i].u["3"]
                               = in.credential_values.attrs_values[
                                    ge[i].predicate.attr_name].value
                                 - ge[i].predicate.value)

(***************************************************************************)
(* The range of the exponent e                                             *)
(***************************************************************************)
\* C29: every credential signature that process_credential_signature accepted
\* has 2^LARGE_E_START <= e <= 2^LARGE_E_START + 2^LARGE_E, so the
\* e_prime = e - 2^LARGE_E_START of an equality init proof made of it is not
\* negative.
C29_AcceptedExponentInRange ==
    (processed > 0 /\ process_result.ok) =>
       LET e == credential_signature.p_credential.e
       IN /\ 2 ^ LARGE_E_START <= e
          /\ e <= 2 ^ LARGE_E_START + 2 ^ LARGE_E
          /\ e - 2 ^ LARGE_E_START >= 0

(***************************************************************************)
(* The finalized range proof                                               *)
(***************************************************************************)
\* C30: in every Proof that finalize returned, with ch the challenge, each
\* range proof has u_i = u_tilde_i + ch * u_i and r_i = r_tilde_i + ch * r_i
\* for i = 0..3, r_DELTA = r_tilde_DELTA + ch * r_DELTA and
\* alpha = alpha_tilde + ch * (r_DELTA - (u_0 r_0 + u_1 r_1 + u_2 r_2 + u_3 r_3)),
\* all over the integers and with the u_i, r_i of the init proof on the
\* right; the keys of u are "0".."3", the keys of r are "0".."3" and
\* "DELTA", and t is the t of the init proof.
C30_RangeProofFinalisation ==
    (op = "finalize" /\ result.ok) =>
       \A k \in DOMAIN init_proofs :
          LET init == init_proofs[k].primary_init_proof.ge_proofs
              fin == proof[1].proofs[k].primary_proof.ge_proofs
              ch == proof[1].aggregated_proof.c_hash
          IN /\ Len(fin) = Len(init)
             /\ \A i \in DOMAIN init :
                   /\ DOMAIN fin[i].u = {"0", "1", "2", "3"}
                   /\ DOMAIN fin[i].r = {"0", "1", "2", "3", "DELTA"}
                   /\ \A j \in {"0", "1", "2", "3"} :
                         /\ fin[i].u[j] = init[i].u_tilde[j] + ch * init[i].u[j]
                         /\ fin[i].r[j] = init[i].r_tilde[j] + ch * init[i].r[j]
                   /\ fin[i].r["DELTA"]
                         = init[i].r_tilde["DELTA"] + ch * init[i].r["DELTA"]
                   /\ fin[i].alpha
                         = init[i].alpha_tilde
                           + ch * (init[i].r["DELTA"]
                                   - (init[i].u["0"] * init[i].r["0"]
                                      + init[i].u["1"] * init[i].r["1"]
                                      + init[i].u["2"] * init[i].r["2"]
                                      + init[i].u["3"] * init[i].r["3"]))
                   /\ fin[i].t = init[i].t
                   /\ fin[i].predicate = init[i].predicate

\* a Proof with a range proof whose challenge and products are not zero
C30_Witness ==
    /\ op = "finalize"
    /\ result.ok
    /\ proof[1].aggregated_proof.c_hash # 0
    /\ \E k \in DOMAIN init_proofs :
          /\ Len(proof[1].proofs[k].primary_proof.ge_proofs) > 0
          /\ LET ge == init_proofs[k].primary_init_proof.ge_proofs[1]
             IN /\ \E j \in IterKeys : ge.u[j] * ge.r[j] # 0
                /\ proof[1].proofs[k].primary_proof.ge_proofs[1].alpha # ge.alpha_tilde

====
